---- MODULE Spec2Model ----
(***************************************************************************)
(* Chat/agent session subsystem of the Aide editor:                        *)
(*   - Response content accumulator   (aideAgentModel.ts, class Response)  *)
(*   - Agent event dispatcher         (AideAgentSessionProvider)           *)
(*   - Chat model, its persistence and the "Revert until here" action      *)
(*   - Streamed edits                 (provideEditStreamed)                *)
(* Each component has its own specification over its own variables; the    *)
(* variables of the other components are left unchanged by it.             *)
(***************************************************************************)
EXTENDS Integers, Sequences, FiniteSets, TLC

VARIABLES
    \* ---- Response (content accumulator) ----
    responseParts,      \* Response._responseParts
    citations,          \* Response._citations (licenses)
    responseRepr,       \* Response._responseRepr
    markdownContent,    \* Response._markdownContent
    pendingTasks,       \* progressTask promises not yet settled: their responsePosition and task
    fired,              \* whether the last operation fired onDidChangeValue
    respOps,            \* number of operations applied to the response
    hasSideEffects,     \* ChatResponseModel._hasSideEffects
    mdRun,              \* history: the current run of consecutive mergeable markdown fragments
    editLog,            \* history: per URI, the non-empty textEdit fragments since the last clear()
    \* ---- Agent event dispatcher (AideAgentSessionProvider) ----
    responseStreamCollection,  \* AideResponseStreamCollection: set of [key, stream]
    streams,            \* the response stream objects handed out by initResponse
    lastThinkingText,   \* Map<string, string>: set of [key, text]
    startedStreams,     \* Set<string>
    runs,               \* the reportAgentEventsToChat loops in flight
    cancelNotified,     \* sidecarClient.cancelRunningEvent calls made: set of [sessionId, exchangeId]
    nEvents,            \* number of events taken from the event streams so far
    lastEvent,          \* history: the event dispatched by the last step (NoEvent: none)
    streamHist,         \* history, per stream: what arrived for it while it was open
    \* ---- Chat model (ChatModel) ----
    exchanges,          \* ChatModel._exchanges
    nextRequestId,      \* ChatRequestModel.nextId (static)
    nextResponseId,     \* ChatResponseModel.nextId (static)
    chatOps,            \* number of progress fragments accepted so far
    restored,           \* whether the model was constructed from persisted data (initialData)
    constructLog,       \* the last constructor call: whether it threw, errors it logged
    lastExchangeComplete,  \* the context key CONTEXT_CHAT_LAST_EXCHANGE_COMPLETE
    changeEvents,       \* the events the last operation fired on ChatModel._onDidChange
    disposed,           \* the ids of the responses that were disposed
    \* ---- Editing session and the 'Revert until here' action ----
    workingSet,         \* content of the files of the working set
    snapshots,          \* per exchange id, the working-set content captured when it began
    editCount,          \* number of edits applied to the working set so far
    revert,             \* position of RemoveAction.run and what it holds across its awaits
    \* ---- Streamed edits (AideAgentSessionProvider.provideEditStreamed) ----
    editsMap,           \* Map: set of [key: edit_request_id, val: the answer splitter]
    editCounter,        \* AideAgentSessionProvider.editCounter
    streamProcessors,   \* the StreamProcessor objects constructed so far, per edit_request_id
    disk,               \* which files exist on disk
    savedFiles,         \* vscode.workspace.save calls, per file
    errorMessages,      \* vscode.window.showErrorMessage calls
    editStream,         \* the backend's side of each edit stream: what it has sent so far
    lastEdit,           \* history: the last provideEditStreamed call and how it ended
    \* ---- Chat model: initialization ----
    initState,          \* ChatModel._initState
    isInitializedDeferred,  \* ChatModel._isInitializedDeferred
    welcomeMessage,     \* ChatModel._welcomeMessage
    initFired,          \* number of 'initialize' change events fired
    initOps,            \* number of calls made so far
    lastInit,           \* history: the last call and whether it threw
    \* ---- Editing session and the list of the chat input part ----
    entries,            \* IChatEditingSession.entries: the modified-file entries
    workingSetMetadata, \* IChatEditingSession.workingSet: file and display metadata, in insertion order
    chatEditList,       \* the items of ChatInputPart._chatEditList
    sessionChanged,     \* whether the last operation of the session fired a change event
    \* ---- View models (ChatViewModel, ChatResponseViewModel) ----
    items,              \* ChatViewModel._items
    inputPlaceholder,   \* ChatViewModel._inputPlaceholder
    viewChange,         \* the view-model change events the last operation fired
    lastHandled,        \* the model change event the view model handled last
    viewOps,            \* number of view-model operations and listener calls
    \* ---- Authentication (CSAuthenticationService.refreshTokens) ----
    session,            \* CSAuthenticationService._session (0 is undefined, n is the n-th stored session)
    secretStored,       \* whether the secret storage holds the session
    refresh,            \* the refreshTokens call in flight (position, attempts, requests sent, lastError, result)
    notifications,      \* the notifications raised by the current refreshTokens call
    refreshCalls,       \* number of refreshTokens calls
    \* ---- Streamed edits: the handlers of one stream in flight ----
    answerSplitter,     \* the answerSplitter of the stream's editsMap entry
    sentText,           \* the Delta texts of the stream, concatenated
    processLineCalls,   \* the lines handed to streamProcessor.processLine, in call order
    cleanups,           \* number of streamProcessor.cleanup() calls
    handlers,           \* the provideEditStreamed calls for Delta and End, in arrival order, and where each is
    flightPhase,        \* how far the backend is with the stream
    entryPresent,        \* whether editsMap holds the stream's entry
    \* ---- Coll ----
    collectionMap,    \* AideResponseStreamCollection.responseStreamCollection under arbitrary ids, a set of [key, stream]
    pairStreams,    \* history, per (sessionId, exchangeId), the stream added last for the pair and not removed since (0 is none)
    collAdds,    \* number of addResponseStream calls
    lastGet    \* the last getResponseStream call and its result

respVars == <<responseParts, citations, responseRepr, markdownContent,
              pendingTasks, fired, respOps, hasSideEffects, mdRun, editLog>>

dispVars == <<responseStreamCollection, streams, lastThinkingText, startedStreams,
              runs, cancelNotified, nEvents, lastEvent, streamHist>>

chatVars == <<exchanges, nextRequestId, nextResponseId, chatOps, restored, constructLog,
              lastExchangeComplete, changeEvents, disposed>>

editVars == <<workingSet, snapshots, editCount, revert>>

streamedVars == <<editsMap, editCounter, streamProcessors, disk, savedFiles,
                  errorMessages, editStream, lastEdit>>

initVars == <<initState, isInitializedDeferred, welcomeMessage, initFired, initOps, lastInit>>

sessionVars == <<entries, workingSetMetadata, chatEditList, sessionChanged>>

viewVars == <<items, inputPlaceholder, viewChange, lastHandled, viewOps>>

authVars == <<session, secretStored, refresh, notifications, refreshCalls>>

flightVars == <<answerSplitter, sentText, processLineCalls, cleanups, handlers, flightPhase, entryPresent>>

collVars == <<collectionMap, pairStreams, collAdds, lastGet>>

vars == <<respVars, dispVars, chatVars, editVars, streamedVars, initVars, sessionVars, viewVars, authVars, flightVars, collVars>>

\* what the operations of one component leave alone
notRespVars == <<dispVars, chatVars, editVars, streamedVars, initVars, sessionVars, viewVars, authVars, flightVars, collVars>>

notDispVars == <<respVars, chatVars, editVars, streamedVars, initVars, sessionVars, viewVars, authVars, flightVars, collVars>>

notChatVars == <<respVars, dispVars, streamedVars, initVars, sessionVars, viewVars, authVars, flightVars, collVars>>

notStreamedVars == <<respVars, dispVars, chatVars, editVars, initVars, sessionVars, viewVars, authVars, flightVars, collVars>>

notInitVars == <<respVars, dispVars, chatVars, editVars, streamedVars, sessionVars, viewVars, authVars, flightVars, collVars>>

notSessionVars == <<respVars, dispVars, chatVars, editVars, streamedVars, initVars, viewVars, authVars, flightVars, collVars>>

\* what a view-model operation that writes through to the chat model leaves alone
notChatViewVars == <<respVars, dispVars, editVars, streamedVars, initVars, sessionVars, authVars, flightVars, collVars>>

notViewVars == <<respVars, dispVars, chatVars, editVars, streamedVars, initVars, sessionVars, authVars, flightVars, collVars>>

notAuthVars == <<respVars, dispVars, chatVars, editVars, streamedVars, initVars, sessionVars, viewVars, flightVars, collVars>>

notFlightVars == <<respVars, dispVars, chatVars, editVars, streamedVars, initVars, sessionVars, viewVars, authVars, collVars>>

notCollVars == <<respVars, dispVars, chatVars, editVars, streamedVars, initVars, sessionVars, viewVars, authVars, flightVars>>

-----------------------------------------------------------------------------
(* Bounds *)

MaxOps == 3

MaxStreams == 2

MaxEvents == 2

MaxExchanges == 3

MaxProgress == 3

MaxEdits == 2

MaxDeltas == 2

MaxInitOps == 5
\* the largest number of exchanges in a persisted session handed to the constructor
MaxPersisted == 3
\* the largest number of view-model operations and listener calls
MaxViewOps == 3
\* the largest number of refreshTokens calls
MaxRefreshCalls == 2
\* the largest number of streams added to the collection under arbitrary ids
MaxAdds == 3

-----------------------------------------------------------------------------
(* Markdown strings *)

Undefined == "undefined"

\* optional values keep one shape: flags are "true", "false" or "undefined",
\* an absent URI is NoUri
NoUri == [defined |-> FALSE, scheme |-> "", authority |-> "", path |-> "", query |-> "", fragment |-> ""]

BaseUriA == [defined |-> TRUE, scheme |-> "file", authority |-> "", path |-> "/a", query |-> "", fragment |-> ""]

BaseUriB == [defined |-> TRUE, scheme |-> "file", authority |-> "", path |-> "/b", query |-> "", fragment |-> ""]

MdString(value, isTrusted, supportThemeIcons, supportHtml, baseUri) ==
    [value |-> value, isTrusted |-> isTrusted, supportThemeIcons |-> supportThemeIcons,
     supportHtml |-> supportHtml, baseUri |-> baseUri]

\* new MarkdownString(value)
NewMarkdownString(value) == MdString(value, "false", "false", "false", NoUri)

NoContent == MdString("", Undefined, Undefined, Undefined, NoUri)

\* JavaScript truthiness of an optional URI
Truthy(uri) == uri.defined

\* mutant: supportHtml is not compared
canMergeMarkdownStrings_IgnoresHtml(md1, md2) ==
    IF Truthy(md1.baseUri) /\ Truthy(md2.baseUri)
    THEN /\ md1.baseUri.scheme = md2.baseUri.scheme
         /\ md1.baseUri.authority = md2.baseUri.authority
         /\ md1.baseUri.path = md2.baseUri.path
         /\ md1.baseUri.query = md2.baseUri.query
         /\ md1.baseUri.fragment = md2.baseUri.fragment
         /\ md1.isTrusted = md2.isTrusted
         /\ md1.supportThemeIcons = md2.supportThemeIcons
    ELSE IF Truthy(md1.baseUri) \/ Truthy(md2.baseUri)
    THEN FALSE
    ELSE /\ md1.isTrusted = md2.isTrusted
         /\ md1.supportThemeIcons = md2.supportThemeIcons

canMergeMarkdownStrings(md1, md2) ==
    IF Truthy(md1.baseUri) /\ Truthy(md2.baseUri)
    THEN /\ md1.baseUri.scheme = md2.baseUri.scheme
         /\ md1.baseUri.authority = md2.baseUri.authority
         /\ md1.baseUri.path = md2.baseUri.path
         /\ md1.baseUri.query = md2.baseUri.query
         /\ md1.baseUri.fragment = md2.baseUri.fragment
         /\ md1.isTrusted = md2.isTrusted
         /\ md1.supportHtml = md2.supportHtml
         /\ md1.supportThemeIcons = md2.supportThemeIcons
    ELSE IF Truthy(md1.baseUri) \/ Truthy(md2.baseUri)
    THEN FALSE
    ELSE /\ md1.isTrusted = md2.isTrusted
         /\ md1.supportHtml = md2.supportHtml
         /\ md1.supportThemeIcons = md2.supportThemeIcons

\* mutant: the appended text is put in front
appendMarkdownString_Prepends(md1, md2) ==
    MdString(md2.value \o md1.value, md1.isTrusted, md1.supportThemeIcons,
             md1.supportHtml, md1.baseUri)

appendMarkdownString(md1, md2) ==
    MdString(md1.value \o md2.value, md1.isTrusted, md1.supportThemeIcons,
             md1.supportHtml, md1.baseUri)

-----------------------------------------------------------------------------
(* Response content parts *)

Part(kind, content, uri, edits, done) ==
    [kind |-> kind, content |-> content, uri |-> uri, edits |-> edits, done |-> done]

\* a progress fragment that is not a text edit becomes a part as it is
FragmentPart(progress) == Part(progress.kind, progress.content, Undefined, <<>>, Undefined)

Last(s) == s[Len(s)]

\* mutant: only the last part is looked at, so groups follow arrival order
IndexOfGroup_LastOnly(parts, uri) ==
    IF Len(parts) > 0 /\ Last(parts).kind = "textEditGroup" /\ Last(parts).uri = uri
    THEN Len(parts) ELSE 0

\* the first textEditGroup part for the URI (0: none)
IndexOfGroup(parts, uri) ==
    LET hits == {i \in 1..Len(parts) : parts[i].kind = "textEditGroup" /\ parts[i].uri = uri}
    IN  IF hits = {} THEN 0 ELSE CHOOSE i \in hits : \A j \in hits : i <= j

\* Response.updateContent, the content parts it leaves
updateContentParts(parts, progress) ==
    IF progress.kind = "markdownContent"
    THEN IF \/ Len(parts) = 0
            \/ Last(parts).kind # "markdownContent"
            \/ ~canMergeMarkdownStrings(Last(parts).content, progress.content)
         THEN Append(parts, FragmentPart(progress))
         ELSE [parts EXCEPT ![Len(parts)].content =
                   appendMarkdownString(Last(parts).content, progress.content)]
    ELSE IF progress.kind = "textEdit"
    THEN IF Len(progress.edits) > 0
         THEN LET i == IndexOfGroup(parts, progress.uri)
              IN  IF i # 0
                  THEN [parts EXCEPT ![i].edits = Append(parts[i].edits, progress.edits),
                                     ![i].done = progress.done]
                  ELSE Append(parts, Part("textEditGroup", NoContent, progress.uri,
                                          <<progress.edits>>, progress.done))
         ELSE parts
    ELSE Append(parts, FragmentPart(progress))

\* mutant: a text edit without edits also reaches _updateRepr
updateContentRefreshes_Always(progress) == TRUE

\* whether Response.updateContent reaches _updateRepr
updateContentRefreshes(progress) ==
    progress.kind = "textEdit" => Len(progress.edits) > 0

RECURSIVE JoinNonEmpty(_)
JoinNonEmpty(strs) ==
    IF Len(strs) = 0 THEN ""
    ELSE LET rest == JoinNonEmpty(Tail(strs))
         IN  IF Len(Head(strs)) = 0 THEN rest
             ELSE IF Len(rest) = 0 THEN Head(strs)
             ELSE Head(strs) \o "\n\n" \o rest

PartRepr(part) ==
    IF part.kind \in {"treeData", "progressMessage", "codeblockUri", "stage"} THEN ""
    ELSE IF part.kind = "textEditGroup" THEN "Made changes."
    ELSE part.content.value

PartMarkdown(part) ==
    IF part.kind \in {"inlineReference", "markdownContent", "markdownVuln"}
    THEN part.content.value
    ELSE ""

getCodeCitationsMessage(cits) ==
    IF Len(cits) = 0 THEN ""
    ELSE IF Cardinality({cits[i] : i \in 1..Len(cits)}) = 1
    THEN "Similar code found with 1 license type"
    ELSE "Similar code found with " \o ToString(Cardinality({cits[i] : i \in 1..Len(cits)}))
             \o " license types"

\* Response._updateRepr: the two projections
ReprOf(parts, cits) ==
    JoinNonEmpty([i \in 1..Len(parts) |-> PartRepr(parts[i])])
        \o (IF Len(cits) > 0 THEN "\n\n" \o getCodeCitationsMessage(cits) ELSE "")

MarkdownOf(parts) == JoinNonEmpty([i \in 1..Len(parts) |-> PartMarkdown(parts[i])])

-----------------------------------------------------------------------------
(* Inputs of the response operations *)

Texts == {"Let me look", " at this."}

MdAttrs == { NewMarkdownString(""),
             MdString("", "true", "false", "false", NoUri),
             MdString("", "false", "false", "false", BaseUriA) }

MdInputs == { [a EXCEPT !.value = t] : a \in MdAttrs, t \in Texts }

Uris == {"file:///foo.ts", "file:///bar.ts"}

EditBatches == { <<>>, <<"edit1">>, <<"edit2">> }

DoneFlags == {"true", "false"}

OtherKinds == {"treeData", "warning"}

Licenses == {"MIT", "GPL"}

TaskResults == {"task done", Undefined}

MarkdownFragment(md) == [kind |-> "markdownContent", content |-> md]

TextEditFragment(uri, edits, done) == [kind |-> "textEdit", uri |-> uri, edits |-> edits, done |-> done]

OtherFragment(kind, text) == [kind |-> kind, content |-> NewMarkdownString(text)]

-----------------------------------------------------------------------------
(* History kept for the claims about runs of fragments *)

NoRun == [texts |-> <<>>, attrs |-> NoContent, base |-> "", nparts |-> 0]

SameAttributes(md1, md2) ==
    /\ md1.isTrusted = md2.isTrusted
    /\ md1.supportHtml = md2.supportHtml
    /\ md1.supportThemeIcons = md2.supportThemeIcons
    /\ md1.baseUri = md2.baseUri

\* the run once fragment md has turned the parts from before to after: a fragment with
\* the attributes of the run continues it, any other fragment starts a new run, on the
\* part it was merged into (base: the text found there) or on a part of its own
RunAfterMarkdown(before, after, md) ==
    IF mdRun.texts # <<>> /\ SameAttributes(mdRun.attrs, md)
    THEN [mdRun EXCEPT !.texts = Append(@, md.value)]
    ELSE [texts |-> <<md.value>>,
          attrs |-> [md EXCEPT !.value = ""],
          base |-> IF Len(after) = Len(before) THEN Last(before).content.value ELSE "",
          nparts |-> Len(after)]

RECURSIVE Concat(_)
Concat(texts) == IF Len(texts) = 0 THEN "" ELSE Head(texts) \o Concat(Tail(texts))

EmptyEditLog == [u \in Uris |-> <<>>]

-----------------------------------------------------------------------------
(* Agent event dispatcher: identifiers, streams and events *)

Sessions == {"a-1", "a-2"}

\* 'response_' + ChatResponseModel.nextId++
ExchangeIdOf(n) == "response_" \o ToString(n)

ExchangeIds == {ExchangeIdOf(n) : n \in 0..(MaxStreams - 1)}

getKey(sessionId, exchangeId) == sessionId \o "-" \o exchangeId

\* Map.get: the value stored under key (none: dflt)
MapGet(map, key, dflt) ==
    IF \E c \in map : c.key = key THEN (CHOOSE c \in map : c.key = key).val ELSE dflt

MapSet(map, key, val) == {c \in map : c.key # key} \cup {[key |-> key, val |-> val]}

MapDelete(map, key) == {c \in map : c.key # key}

\* getResponseStream: the index of the stream in streams (0: undefined)
getResponseStream(sessionId, exchangeId) ==
    MapGet(responseStreamCollection, getKey(sessionId, exchangeId), 0)

\* getAllResponseStreams
getAllResponseStreams == {c.val : c \in responseStreamCollection}

Out(op, arg, cause) == [op |-> op, arg |-> arg, cause |-> cause]

Event(kind, sessionId, exchangeId, arg, text) ==
    [kind |-> kind, sessionId |-> sessionId, exchangeId |-> exchangeId, arg |-> arg, text |-> text]

NoEvent == Event("none", "", "", "", "")

Sentinels == {"keep_alive", "started", "done"}

Null == "null"

Slice_Whole(text, from) == text

\* currentText.slice(lastText.length)
Slice(text, from) == IF from >= Len(text) THEN "" ELSE SubSeq(text, from + 1, Len(text))

ChatEventWrites_Twice(ev) ==
    IF ev.text # Null
    THEN <<Out("markdown", ev.text, ev.kind), Out("markdown", ev.text, ev.kind)>> ELSE <<>>

\* the ChatEvent branch: if (delta !== null) markdown(delta)
ChatEventWrites(ev) ==
    IF ev.text # Null THEN <<Out("markdown", ev.text, ev.kind)>> ELSE <<>>

\* what the dispatch branch of ev writes to the stream of its pair, in order
\* (the back quotes of the source's messages are written as ')
EventWrites(ev, lastText) ==
    LET W(op, arg) == <<Out(op, arg, ev.kind)>>
    IN
    IF ev.kind = "OpenFile"
    THEN IF ev.arg # "" THEN W("reference", ev.arg) ELSE <<>>
    ELSE IF ev.kind = "ToolThinking"
    THEN IF Slice(ev.text, Len(lastText)) # ""
         THEN W("markdown", Slice(ev.text, Len(lastText)) \o "\n") ELSE <<>>
    ELSE IF ev.kind = "ToolParameterFound"
    THEN IF ev.arg \in {"fs_file_path", "directory_path"} THEN W("reference", ev.text)
         ELSE IF ev.arg \in {"instruction", "result", "question"} THEN W("markdown", ev.text \o "\n")
         ELSE IF ev.arg = "command" THEN W("markdown", "Running command: '" \o ev.text \o "'\n")
         ELSE IF ev.arg = "regex_pattern"
         THEN W("markdown", "\nSearching the codebase: '" \o ev.text \o "'\n")
         ELSE IF ev.arg = "file_pattern"
         THEN W("markdown", "\nLooking for files: '" \o ev.text \o "'\n")
         ELSE <<>>
    ELSE IF ev.kind = "ToolUseDetected"
    THEN IF ev.arg = "AttemptCompletion" THEN W("stage", "Complete")
         ELSE IF ev.arg = "OpenFile" /\ ev.text # "" THEN W("reference", ev.text)
         ELSE <<>>
    ELSE IF ev.kind = "ToolTypeError"
    THEN W("toolTypeError", ev.text) \o W("stage", "Error")
    ELSE IF ev.kind = "SymbolEventSubStep.Edit"
    THEN IF ev.arg # "" /\ ev.text # "" THEN W("markdown", ev.text) ELSE <<>>
    ELSE IF ev.kind = "ChatEvent"
    THEN ChatEventWrites(ev)
    ELSE IF ev.kind = "PlanStepTitleAdded"
    THEN W("stage", "Planning") \o W("step", "### " \o ev.text)
    ELSE IF ev.kind = "PlanStepDescriptionUpdate"
    THEN W("step", "\n" \o ev.text)
    ELSE IF ev.kind = "PlansExchangeState"
    THEN IF ev.arg = "Loading" THEN W("stage", "Planning")
         ELSE IF ev.arg = "Cancelled" THEN W("stage", "Cancelled")
         ELSE IF ev.arg = "MarkedComplete" THEN W("stage", "Complete")
         ELSE IF ev.arg = "Accepted" THEN W("stage", "Accepted")
         ELSE <<>>
    ELSE IF ev.kind = "EditsExchangeState"
    THEN IF ev.arg = "Loading" THEN W("stage", "Editing")
         ELSE IF ev.arg = "Cancelled" THEN W("stage", "Cancelled")
         ELSE IF ev.arg = "MarkedComplete" THEN W("stage", "Complete")
         ELSE <<>>
    ELSE IF ev.kind = "ExecutionState"
    THEN IF ev.arg = "Inference" THEN W("stage", "Reasoning")
         ELSE IF ev.arg = "InReview" THEN W("stage", "Review")
         ELSE IF ev.arg = "Cancelled" THEN W("stage", "Cancelled")
         ELSE <<>>
    ELSE IF ev.kind = "FinishedExchange"
    THEN W("stage", "Complete")
    ELSE <<>>

EventCloses_ErrorOwn(ev) ==
    IF ev.kind = "ToolUseDetected" /\ ev.arg = "AttemptCompletion"
    THEN "all"
    ELSE IF \/ ev.kind \in {"PlansExchangeState", "EditsExchangeState"} /\ ev.arg = "MarkedComplete"
            \/ ev.kind \in {"FinishedExchange", "ToolTypeError"}
    THEN "own"
    ELSE "none"

\* the streams the dispatch branch of ev closes: "all" is the loop over
\* getAllResponseStreams, "own" the stream of the event's exchange
EventCloses(ev) ==
    IF \/ ev.kind = "ToolUseDetected" /\ ev.arg = "AttemptCompletion"
       \/ ev.kind = "ToolTypeError"
    THEN "all"
    ELSE IF \/ ev.kind \in {"PlansExchangeState", "EditsExchangeState"} /\ ev.arg = "MarkedComplete"
            \/ ev.kind = "FinishedExchange"
    THEN "own"
    ELSE "none"

\* whether the dispatch branch of ev leaves the loop (return)
EventReturns(ev) ==
    \/ ev.kind = "ToolUseDetected" /\ ev.arg = "AttemptCompletion"
    \/ ev.kind = "ToolTypeError"
    \/ ev.kind \in {"PlansExchangeState", "EditsExchangeState"} /\ ev.arg = "MarkedComplete"

\* the exchange ids closeAndRemoveResponseStream is called with (for the event's session)
ClosedExchangeIds(ev) ==
    IF EventCloses(ev) = "all" THEN {streams[k].exchangeId : k \in getAllResponseStreams}
    ELSE IF EventCloses(ev) = "own" THEN {ev.exchangeId}
    ELSE {}

-----------------------------------------------------------------------------
(* Agent event dispatcher: operations *)

RunIds == {"run1"}

\* the loop started by the cancellation callback of stream k
AnswerOf(k) == "cancel_" \o ToString(k)

NoHist == [arrived |-> FALSE, deltas |-> <<>>, afterError |-> FALSE]

HasToolTypeError(out) == \E i \in 1..Len(out) : out[i].op = "toolTypeError"

DispInit ==
    /\ responseStreamCollection = {}
    /\ streams = <<>>
    /\ lastThinkingText = {}
    /\ startedStreams = {}
    /\ runs = {}
    /\ cancelNotified = {}
    /\ nEvents = 0
    /\ lastEvent = NoEvent
    /\ streamHist = <<>>

\* newExchangeIdForSession where initResponse answers with a response for exchangeId,
\* and addResponseStream
newExchangeWithId(sessionId, exchangeId) ==
    /\ streams' = Append(streams, [sessionId |-> sessionId, exchangeId |-> exchangeId,
                                   out |-> <<>>, closed |-> 0, cancelRequested |-> FALSE])
    /\ responseStreamCollection' =
           MapSet(responseStreamCollection, getKey(sessionId, exchangeId), Len(streams) + 1)
    /\ streamHist' = Append(streamHist,
           [NoHist EXCEPT !.afterError =
                \E j \in 1..Len(streams) : /\ streams[j].sessionId = sessionId
                                           /\ HasToolTypeError(streams[j].out)])
    /\ lastEvent' = NoEvent
    /\ UNCHANGED <<lastThinkingText, startedStreams, runs, cancelNotified, nEvents>>
    /\ UNCHANGED notDispVars

\* newExchangeIdForSession with the ids the chat model makes, one per response
newExchangeIdForSession(sessionId) ==
    newExchangeWithId(sessionId, ExchangeIdOf(Len(streams)))

\* token.onCancellationRequested of the stream k: notify the backend and dispatch its answer
onCancellationRequested(k) ==
    /\ k \in 1..Len(streams)
    /\ ~streams[k].cancelRequested
    /\ streams' = [streams EXCEPT ![k].cancelRequested = TRUE]
    /\ cancelNotified' = cancelNotified \cup
           {[sessionId |-> streams[k].sessionId, exchangeId |-> streams[k].exchangeId]}
    /\ runs' = runs \cup {AnswerOf(k)}
    /\ lastEvent' = NoEvent
    /\ UNCHANGED <<responseStreamCollection, lastThinkingText, startedStreams, nEvents, streamHist>>
    /\ UNCHANGED notDispVars

\* a call of reportAgentEventsToChat on a new event stream
StartRun(r) ==
    /\ r \in RunIds \ runs
    /\ runs' = runs \cup {r}
    /\ lastEvent' = NoEvent
    /\ UNCHANGED <<responseStreamCollection, streams, lastThinkingText, startedStreams,
                   cancelNotified, nEvents, streamHist>>
    /\ UNCHANGED notDispVars

\* the event stream of the loop r is exhausted
EndRun(r) ==
    /\ r \in runs
    /\ runs' = runs \ {r}
    /\ lastEvent' = NoEvent
    /\ UNCHANGED <<responseStreamCollection, streams, lastThinkingText, startedStreams,
                   cancelNotified, nEvents, streamHist>>
    /\ UNCHANGED notDispVars

CloseKeys_AnySession(ev) == {getKey(s, x) : s \in Sessions, x \in ClosedExchangeIds(ev)}

\* the keys closeAndRemoveResponseStream(sessionId, stream.exchangeId) works on: the
\* session is the event's
CloseKeys(ev) == {getKey(ev.sessionId, x) : x \in ClosedExchangeIds(ev)}

removeResponseStream_Keeps(collection, closeKeys) == collection

\* AideResponseStreamCollection.removeResponseStream, for every stream closed
removeResponseStream(collection, closeKeys) == {c \in collection : c.key \notin closeKeys}

deleteThinkingText_Keeps(thinking, closeKeys) == thinking

\* closeAndRemoveResponseStream: this.lastThinkingText.delete(key), for every stream closed
deleteThinkingText(thinking, closeKeys) == {c \in thinking : c.key \notin closeKeys}

LoadingStage_Always(key, kind) == <<Out("stage", "Loading...", kind)>>

\* if (!startedStreams.has(key)) stage('Loading...')
LoadingStage(key, kind) ==
    IF key \notin startedStreams THEN <<Out("stage", "Loading...", kind)>> ELSE <<>>

Inert_SentinelsOnly(ev) == ev.kind \in Sentinels

\* the event is skipped at the head of the loop body
Inert(ev) == ev.kind \in Sentinels \/ getResponseStream(ev.sessionId, ev.exchangeId) = 0

\* one iteration of the for-await loop of reportAgentEventsToChat in the loop r
Dispatch(r, ev) ==
    /\ r \in runs
    /\ nEvents < MaxEvents
    /\ nEvents' = nEvents + 1
    /\ lastEvent' = ev
    /\ cancelNotified' = cancelNotified
    /\ UNCHANGED notDispVars
    /\ IF Inert(ev)
       THEN UNCHANGED <<responseStreamCollection, streams, lastThinkingText, startedStreams,
                        runs, streamHist>>
       ELSE LET key == getKey(ev.sessionId, ev.exchangeId)
                k == getResponseStream(ev.sessionId, ev.exchangeId)
                writes == LoadingStage(key, ev.kind) \o EventWrites(ev, MapGet(lastThinkingText, key, ""))
                thinking == IF ev.kind = "ToolThinking"
                            THEN MapSet(lastThinkingText, key, ev.text) ELSE lastThinkingText
                closeKeys == CloseKeys(ev)
                closing == {MapGet(responseStreamCollection, ck, 0) : ck \in closeKeys} \ {0}
            IN /\ streams' = [j \in 1..Len(streams) |->
                      [streams[j] EXCEPT !.out = IF j = k THEN @ \o writes ELSE @,
                                         !.closed = IF j \in closing THEN @ + 1 ELSE @]]
               /\ responseStreamCollection' = removeResponseStream(responseStreamCollection, closeKeys)
               /\ lastThinkingText' = deleteThinkingText(thinking, closeKeys)
               /\ startedStreams' = startedStreams \cup {key}
               /\ runs' = IF EventReturns(ev) THEN runs \ {r} ELSE runs
               /\ streamHist' = [streamHist EXCEPT
                      ![k].arrived = TRUE,
                      ![k].deltas = IF ev.kind = "ChatEvent" /\ ev.text # Null
                                    THEN Append(@, ev.text) ELSE @]

SentinelEvents == {Event(kind, "", "", "", "") : kind \in Sentinels}

\* the event variants drawn for a pair: <<kind, arg, text>>
Variants ==
    {<<"OpenFile", "/foo.ts", "">>,
     <<"ToolThinking", "", "Thinking">>,
     <<"ToolUseDetected", "AttemptCompletion", "">>,
     <<"ToolTypeError", "", "bad tool">>,
     <<"ChatEvent", "", Null>>}
    \cup {<<"ChatEvent", "", t>> : t \in Texts}
    \cup {<<"PlanStepTitleAdded", "", "Step 1">>,
          <<"PlansExchangeState", "MarkedComplete", "">>,
          <<"FinishedExchange", "", "">>}

\* the variants drawn for a pair without a registered stream: the loop skips the event
\* before it looks at its kind
InertVariants == {<<"ChatEvent", "", "Let me look">>, <<"ToolTypeError", "", "bad tool">>}

PairEvents == {Event(v[1], s, e, v[2], v[3]) : v \in Variants, s \in Sessions, e \in ExchangeIds}

\* the events a loop can take next: every variant for a pair with a registered stream,
\* the InertVariants for the other pairs, and the sentinels
Drawn(events) ==
    {ev \in events : Inert(ev) => \/ ev.kind \in Sentinels
                                  \/ <<ev.kind, ev.arg, ev.text>> \in InertVariants}

DispNext ==
    \/ \E sessionId \in Sessions :
           Len(streams) < MaxStreams /\ newExchangeIdForSession(sessionId)
    \/ \E r \in RunIds : StartRun(r)
    \/ \E r \in runs : EndRun(r)
    \/ \E r \in runs, ev \in Drawn(SentinelEvents \cup PairEvents) : Dispatch(r, ev)

\* the terminal fan-out scenario: one session, one stream more than MaxStreams
FanOutStreams == MaxStreams + 1

FanOutVariants ==
    {<<"ToolUseDetected", "AttemptCompletion", "">>, <<"ToolTypeError", "", "bad tool">>,
     <<"PlansExchangeState", "MarkedComplete", "">>, <<"FinishedExchange", "", "">>}

FanOutEvents ==
    {Event(v[1], "a-1", ExchangeIdOf(n), v[2], v[3]) :
         v \in FanOutVariants, n \in 0..(FanOutStreams - 1)}

FanOutNext ==
    \/ Len(streams) < FanOutStreams /\ newExchangeIdForSession("a-1")
    \/ \E r \in RunIds : StartRun(r)
    \/ \E r \in runs : EndRun(r)
    \/ \E r \in runs, ev \in Drawn(FanOutEvents) : Dispatch(r, ev)

\* the thinking-text scenario: growing thinking texts and the events that close streams
ThinkingVariants ==
    {<<"ToolThinking", "", "">>, <<"ToolThinking", "", "Thinking">>,
     <<"ToolThinking", "", "Thinking more">>}
    \cup FanOutVariants

ThinkingEvents ==
    {Event(v[1], s, e, v[2], v[3]) : v \in ThinkingVariants, s \in Sessions, e \in ExchangeIds}

ThinkingNext ==
    \/ \E sessionId \in Sessions :
           Len(streams) < MaxStreams /\ newExchangeIdForSession(sessionId)
    \/ \E r \in RunIds : StartRun(r)
    \/ \E r \in runs : EndRun(r)
    \/ \E r \in runs, ev \in Drawn(ThinkingEvents) : Dispatch(r, ev)

\* the closed-stream scenario: the loop of the backend's events and the loops of the
\* cancellation answers dispatch closing events and events that write
ClosedVariants ==
    {<<"ChatEvent", "", "Let me look">>, <<"PlanStepTitleAdded", "", "Step 1">>}
    \cup FanOutVariants

ClosedEvents ==
    {Event(v[1], "a-1", e, v[2], v[3]) : v \in ClosedVariants, e \in ExchangeIds}

ClosedNext ==
    \/ Len(streams) < MaxStreams /\ newExchangeIdForSession("a-1")
    \/ \E r \in RunIds : StartRun(r)
    \/ \E k \in 1..MaxStreams : onCancellationRequested(k)
    \/ \E r \in runs : EndRun(r)
    \/ \E r \in runs, ev \in Drawn(ClosedEvents) : Dispatch(r, ev)

\* the two-session scenario: the sessions may use the same exchange ids
ConfinedVariants ==
    {<<"ToolThinking", "", "Thinking">>, <<"ToolUseDetected", "AttemptCompletion", "">>,
     <<"ToolTypeError", "", "bad tool">>}

ConfinedEvents ==
    {Event(v[1], s, e, v[2], v[3]) : v \in ConfinedVariants, s \in Sessions, e \in ExchangeIds}

ConfinedNext ==
    \/ \E sessionId \in Sessions, exchangeId \in ExchangeIds :
           /\ Len(streams) < MaxStreams
           /\ \A k \in 1..Len(streams) : \/ streams[k].sessionId # sessionId
                                          \/ streams[k].exchangeId # exchangeId
           /\ newExchangeWithId(sessionId, exchangeId)
    \/ \E r \in RunIds : StartRun(r)
    \/ \E r \in runs : EndRun(r)
    \/ \E r \in runs, ev \in Drawn(ConfinedEvents) : Dispatch(r, ev)

\* the session and the answer events of the cancellation scenario
CancelSessions == {"a-1"}

AnswerVariants ==
    {<<"ExecutionState", "Cancelled", "">>, <<"ChatEvent", "", "Let me look">>,
     <<"FinishedExchange", "", "">>}

AnswerEvents ==
    {Event("done", "", "", "", "")}
    \cup {Event(v[1], s, e, v[2], v[3]) : v \in AnswerVariants, s \in CancelSessions, e \in ExchangeIds}

CancelNext ==
    \/ \E sessionId \in CancelSessions :
           Len(streams) < MaxStreams /\ newExchangeIdForSession(sessionId)
    \/ \E k \in 1..MaxStreams : onCancellationRequested(k)
    \/ \E r \in runs : EndRun(r)
    \/ \E r \in runs, ev \in Drawn(AnswerEvents) : Dispatch(r, ev)

-----------------------------------------------------------------------------
(* Response: operations *)

RespInit ==
    /\ responseParts = <<>>
    /\ citations = <<>>
    /\ responseRepr = ""
    /\ markdownContent = ""
    /\ pendingTasks = <<>>
    /\ fired = FALSE
    /\ respOps = 0
    /\ hasSideEffects = FALSE
    /\ mdRun = NoRun
    /\ editLog = EmptyEditLog

\* the part of every operation that ends in _updateRepr(quiet)
Refresh(parts, cits, quiet) ==
    /\ responseParts' = parts
    /\ citations' = cits
    /\ responseRepr' = ReprOf(parts, cits)
    /\ markdownContent' = MarkdownOf(parts)
    /\ fired' = ~quiet

\* ChatResponseModel.updateContent: newContent.value.toLowerCase().startsWith('running command')
RunsCommand(md) == md.value \in {"Running command: npm test", "running command"}

UpdateMarkdown(md, quiet) ==
    /\ respOps < MaxOps
    /\ respOps' = respOps + 1
    /\ Refresh(updateContentParts(responseParts, MarkdownFragment(md)), citations, quiet)
    /\ mdRun' = RunAfterMarkdown(responseParts,
                                  updateContentParts(responseParts, MarkdownFragment(md)), md)
    /\ UNCHANGED <<pendingTasks, editLog>>
    /\ hasSideEffects' = (hasSideEffects \/ RunsCommand(md))
    /\ UNCHANGED notRespVars

UpdateTextEdit(uri, edits, done, quiet) ==
    LET progress == TextEditFragment(uri, edits, done)
    IN  /\ respOps < MaxOps
        /\ respOps' = respOps + 1
        /\ IF updateContentRefreshes(progress)
           THEN /\ Refresh(updateContentParts(responseParts, progress), citations, quiet)
                /\ editLog' = [editLog EXCEPT ![uri] =
                                Append(@, [edits |-> edits, done |-> done, at |-> respOps + 1])]
           ELSE /\ fired' = FALSE
                /\ UNCHANGED <<responseParts, citations, responseRepr, markdownContent, editLog>>
        /\ mdRun' = NoRun
        /\ UNCHANGED pendingTasks
        /\ hasSideEffects' = TRUE
        /\ UNCHANGED notRespVars

\* the n-th operation's progressTask fragment: each task is an object of its own
TaskFragment(n) == OtherFragment("progressTask", "working " \o ToString(n))

UpdateTask(quiet) ==
    /\ respOps < MaxOps
    /\ respOps' = respOps + 1
    /\ Refresh(updateContentParts(responseParts, TaskFragment(respOps + 1)),
               citations, quiet)
    /\ pendingTasks' = Append(pendingTasks, [pos |-> Len(responseParts) + 1,
                                             task |-> TaskFragment(respOps + 1)])
    /\ mdRun' = NoRun
    /\ UNCHANGED editLog
    /\ UNCHANGED hasSideEffects
    /\ UNCHANGED notRespVars

\* the continuation of progress.task().then(...) for the k-th pending task
ResolveTask(k, content) ==
    /\ k \in 1..Len(pendingTasks)
    /\ pendingTasks' = [i \in 1..(Len(pendingTasks) - 1) |->
                            IF i < k THEN pendingTasks[i] ELSE pendingTasks[i + 1]]
    /\ LET pos == pendingTasks[k].pos
       IN  IF content # Undefined /\ pos > Len(responseParts)
           THEN \* assignment to a property of undefined throws inside the continuation
                /\ fired' = FALSE
                /\ UNCHANGED <<responseParts, citations, responseRepr, markdownContent>>
           ELSE Refresh(IF content # Undefined
                        THEN [responseParts EXCEPT ![pos].content = NewMarkdownString(content)]
                        ELSE responseParts,
                        citations, FALSE)
    /\ mdRun' = NoRun
    /\ UNCHANGED <<respOps, editLog>>
    /\ UNCHANGED hasSideEffects
    /\ UNCHANGED notRespVars

UpdateOther(kind, quiet) ==
    /\ respOps < MaxOps
    /\ respOps' = respOps + 1
    /\ Refresh(updateContentParts(responseParts, OtherFragment(kind, "note")), citations, quiet)
    /\ mdRun' = NoRun
    /\ UNCHANGED <<pendingTasks, editLog>>
    /\ UNCHANGED hasSideEffects
    /\ UNCHANGED notRespVars

AddCitation(license) ==
    /\ respOps < MaxOps
    /\ respOps' = respOps + 1
    /\ Refresh(responseParts, Append(citations, license), FALSE)
    /\ mdRun' = NoRun
    /\ UNCHANGED <<pendingTasks, editLog>>
    /\ UNCHANGED hasSideEffects
    /\ UNCHANGED notRespVars

Clear ==
    /\ respOps < MaxOps
    /\ respOps' = respOps + 1
    /\ Refresh(<<>>, citations, TRUE)
    /\ mdRun' = NoRun
    /\ editLog' = EmptyEditLog
    /\ UNCHANGED pendingTasks
    /\ UNCHANGED hasSideEffects
    /\ UNCHANGED notRespVars

-----------------------------------------------------------------------------
(* Chat model: exchanges, serialisation and deserialisation *)

RequestIdOf(n) == "request_" \o ToString(n)

Exchange(type, id, message, parts, isComplete, isCanceled, isHidden) ==
    [type |-> type, id |-> id, message |-> message, parts |-> parts,
     isComplete |-> isComplete, isCanceled |-> isCanceled, isHidden |-> isHidden,
     citations |-> <<>>, responseIsRedacted |-> FALSE,
     vote |-> Undefined, voteDownReason |-> Undefined]

\* an event fired on ChatModel._onDidChange
ChangeEvent(kind, exchangeId, reason, ids) ==
    [kind |-> kind, exchangeId |-> exchangeId, reason |-> reason, ids |-> ids]

\* new ChatRequestModel(this, message, variableData, ...)
NewRequest(n, message, isHidden) ==
    Exchange("request", RequestIdOf(n), message, <<>>, FALSE, FALSE, isHidden)

NewResponse_Complete(n, parts, isComplete, isCanceled, isHidden) ==
    Exchange("response", ExchangeIdOf(n), "", parts, TRUE, isCanceled, isHidden)

\* new ChatResponseModel(parts, this, agent, slashCommand, isComplete, isCanceled, ...)
NewResponse(n, parts, isComplete, isCanceled, isHidden) ==
    Exchange("response", ExchangeIdOf(n), "", parts, isComplete, isCanceled, isHidden)

\* the persisted shape of one response part: treeData and markdownContent lose their kind
ExportItem(item) ==
    [hasKind |-> item.kind \notin {"treeData", "markdownContent"},
     isMarkdownString |-> item.kind = "markdownContent",
     item |-> item]

\* Response constructor: isMarkdownString(v) ? markdownContent : 'kind' in v ? v : treeData
ReviveItem(v) ==
    IF v.isMarkdownString THEN [v.item EXCEPT !.kind = "markdownContent"]
    ELSE IF v.hasKind THEN v.item
    ELSE [v.item EXCEPT !.kind = "treeData"]

\* toExport: one ISerializableExchange
ExportExchange(r) ==
    [type |-> r.type, message |-> r.message, isHidden |-> r.isHidden,
     isCanceled |-> r.isCanceled,
     response |-> [i \in 1..Len(r.parts) |-> ExportItem(r.parts[i])]]

toJSON(exs) == [i \in 1..Len(exs) |-> ExportExchange(exs[i])]

\* the map callback of _deserialize throws for a request (its branch falls through to
\* 'Unknown exchange'), for any other type that is not 'response', and for a response that
\* has none of response / result / responseErrorDetails ('Unknown response')
Throws(rawExchange) ==
    ~(rawExchange.type = "response" /\ "response" \in DOMAIN rawExchange)

\* the position of the first persisted exchange the callback throws on (0: none)
FirstThrow(raw) ==
    IF \E i \in 1..Len(raw) : Throws(raw[i])
    THEN CHOOSE i \in 1..Len(raw) : /\ Throws(raw[i])
                                    /\ \A j \in 1..(i - 1) : ~Throws(raw[j])
    ELSE 0

ResponsesBefore(raw, n) == Cardinality({i \in 1..Len(raw) : i < n /\ raw[i].type = "response"})

\* ChatModel._deserialize on an array: one try/catch surrounds the whole exchanges.map, so
\* the first throw of the callback makes the catch return the empty list
_deserialize(raw, nextReq, nextResp) ==
    IF FirstThrow(raw) # 0
    THEN <<>>
    ELSE [i \in 1..Len(raw) |->
             NewResponse(nextResp + i - 1,
                         [k \in 1..Len(raw[i].response) |-> ReviveItem(raw[i].response[k])],
                         TRUE, raw[i].isCanceled, raw[i].isHidden)]

\* ChatModel.requestInProgress
requestInProgress(exs) ==
    IF Len(exs) = 0 THEN FALSE
    ELSE IF exs[Len(exs)].type = "response" THEN ~exs[Len(exs)].isComplete
    ELSE TRUE

Files == {"foo.ts", "bar.ts"}

IdleRevert == [pc |-> "idle", exchangeId |-> "", toRemove |-> <<>>, before |-> <<>>]

\* the editing session captures the working-set content when an exchange begins
createSnapshot(snaps, exchangeId) == MapSet(snaps, exchangeId, workingSet)

NoConstructLog == [threw |-> FALSE, errors |-> 0]

ChatInit ==
    /\ exchanges = <<>>
    /\ nextRequestId = 0
    /\ nextResponseId = 0
    /\ chatOps = 0
    /\ restored = FALSE
    /\ constructLog = NoConstructLog
    /\ lastExchangeComplete = FALSE
    /\ changeEvents = <<>>
    /\ disposed = {}
    /\ workingSet = [f \in Files |-> 0]
    /\ snapshots = {}
    /\ editCount = 0
    /\ revert = IdleRevert

Messages == {"Fix the bug in foo.ts"}

addRequest(message) ==
    /\ nextRequestId + nextResponseId + 2 <= MaxExchanges
    /\ exchanges' = exchanges \o <<NewRequest(nextRequestId, message, FALSE),
                                   NewResponse(nextResponseId, <<>>, FALSE, FALSE, FALSE)>>
    /\ nextRequestId' = nextRequestId + 1
    /\ nextResponseId' = nextResponseId + 1
    /\ snapshots' = createSnapshot(createSnapshot(snapshots, RequestIdOf(nextRequestId)),
                                    ExchangeIdOf(nextResponseId))
    /\ lastExchangeComplete' = FALSE
    /\ changeEvents' = <<ChangeEvent("addRequest", RequestIdOf(nextRequestId), "", {})>>
    /\ UNCHANGED <<chatOps, restored, constructLog, disposed, workingSet, editCount, revert>>
    /\ UNCHANGED notChatVars

addResponse ==
    /\ nextRequestId + nextResponseId + 1 <= MaxExchanges
    /\ exchanges' = Append(exchanges, NewResponse(nextResponseId, <<>>, FALSE, FALSE, FALSE))
    /\ nextResponseId' = nextResponseId + 1
    /\ snapshots' = createSnapshot(snapshots, ExchangeIdOf(nextResponseId))
    /\ changeEvents' = <<ChangeEvent("addResponse", ExchangeIdOf(nextResponseId), "", {})>>
    /\ UNCHANGED <<nextRequestId, chatOps, restored, constructLog, lastExchangeComplete, disposed,
                   workingSet, editCount, revert>>
    /\ UNCHANGED notChatVars

ChatProgress ==
    {MarkdownFragment(NewMarkdownString(t)) : t \in Texts}
    \cup {TextEditFragment("file:///foo.ts", <<"edit1">>, "true"), OtherFragment("treeData", "tree")}

\* acceptResponseProgress(response, progress) for the response at position i
acceptResponseProgress(i, progress) ==
    /\ i \in 1..Len(exchanges)
    /\ exchanges[i].type = "response"
    /\ chatOps < MaxProgress
    /\ chatOps' = chatOps + 1
    /\ exchanges' = IF progress.kind = "codeCitation"
                     THEN [exchanges EXCEPT ![i].citations = Append(@, progress.license)]
                     ELSE [exchanges EXCEPT ![i].parts = updateContentParts(@, progress)]
    /\ lastExchangeComplete' = FALSE
    /\ changeEvents' = <<>>
    /\ UNCHANGED <<nextRequestId, nextResponseId, restored, constructLog, disposed>>
    /\ UNCHANGED editVars
    /\ UNCHANGED notChatVars

complete_KeepsParts(response) == [response EXCEPT !.isComplete = TRUE]

\* ChatResponseModel.complete: a redacted response is cleared first
complete(response) ==
    [response EXCEPT !.parts = IF response.responseIsRedacted THEN <<>> ELSE @,
                     !.isComplete = TRUE]

completeResponse(i) ==
    /\ i \in 1..Len(exchanges)
    /\ exchanges[i].type = "response"
    /\ exchanges' = [exchanges EXCEPT ![i] = complete(@)]
    /\ lastExchangeComplete' = TRUE
    /\ changeEvents' = <<>>
    /\ UNCHANGED <<nextRequestId, nextResponseId, chatOps, restored, constructLog, disposed>>
    /\ UNCHANGED editVars
    /\ UNCHANGED notChatVars

cancelResponse(i) ==
    /\ i \in 1..Len(exchanges)
    /\ exchanges[i].type = "response"
    /\ exchanges' = [exchanges EXCEPT ![i].isComplete = TRUE, ![i].isCanceled = TRUE]
    /\ changeEvents' = <<>>
    /\ UNCHANGED <<nextRequestId, nextResponseId, chatOps, restored, constructLog, lastExchangeComplete,
                   disposed>>
    /\ UNCHANGED editVars
    /\ UNCHANGED notChatVars

\* typeof data === 'object' && typeof data.requesterUsername === 'string'
isExportableSessionData(data) == data.requesterUsername = "string"

\* isSerializableSessionData evaluates obj.exchanges.every(...) once the three typeof tests
\* pass: on an exchanges value that is not an array this is a TypeError
isSerializableSessionDataThrows(data) ==
    /\ isExportableSessionData(data)
    /\ data.creationDate = "number"
    /\ data.sessionId = "string"
    /\ ~data.exchangesIsArray

\* persisted data as the constructor sees it: the typeof of the three scalar fields, whether
\* exchanges is an array, and the array
SessionData(requesterUsername, creationDate, sessionId, exchangesIsArray, raw) ==
    [requesterUsername |-> requesterUsername, creationDate |-> creationDate,
     sessionId |-> sessionId, exchangesIsArray |-> exchangesIsArray, exchanges |-> raw]

\* new ChatModel(initialData, ...): the guard of line 944 runs before _deserialize; when it
\* throws no model is built, otherwise _deserialize logs and returns [] for a non-array
\* and for a list its callback throws on
Construct(initialData) ==
    /\ ~restored
    /\ IF isSerializableSessionDataThrows(initialData)
       THEN /\ constructLog' = [threw |-> TRUE, errors |-> 0]
            /\ UNCHANGED <<exchanges, nextRequestId, nextResponseId, restored,
                           lastExchangeComplete, changeEvents>>
       ELSE /\ restored' = TRUE
            /\ exchanges' = IF initialData.exchangesIsArray
                             THEN _deserialize(initialData.exchanges, nextRequestId, nextResponseId)
                             ELSE <<>>
            /\ nextRequestId' = nextRequestId +
                   (IF /\ initialData.exchangesIsArray
                       /\ FirstThrow(initialData.exchanges) # 0
                       /\ initialData.exchanges[FirstThrow(initialData.exchanges)].type = "request"
                    THEN 1 ELSE 0)
            /\ nextResponseId' = nextResponseId +
                   (IF ~initialData.exchangesIsArray THEN 0
                    ELSE IF FirstThrow(initialData.exchanges) # 0
                    THEN ResponsesBefore(initialData.exchanges, FirstThrow(initialData.exchanges))
                    ELSE Len(initialData.exchanges))
            /\ constructLog' =
                   [threw |-> FALSE,
                    errors |-> IF ~initialData.exchangesIsArray THEN 1
                               ELSE IF FirstThrow(initialData.exchanges) # 0 THEN 1 ELSE 0]
            /\ lastExchangeComplete' = FALSE
            /\ changeEvents' = <<>>
    /\ UNCHANGED <<chatOps, disposed>>
    /\ UNCHANGED editVars
    /\ UNCHANGED notChatVars

\* the session is persisted and a new ChatModel(model.toJSON(), ...) takes its place
RoundTrip ==
    /\ exchanges # <<>>
    /\ Construct(SessionData("string", "number", "string", TRUE, toJSON(exchanges)))

ChatNext ==
    \/ \E message \in Messages : addRequest(message)
    \/ addResponse
    \/ \E i \in 1..MaxExchanges, progress \in ChatProgress : acceptResponseProgress(i, progress)
    \/ \E i \in 1..MaxExchanges : completeResponse(i)
    \/ \E i \in 1..MaxExchanges : cancelResponse(i)
    \/ RoundTrip

-----------------------------------------------------------------------------
(* Editing session and RemoveAction ('Revert until here') *)

IdsOf(exs) == [i \in 1..Len(exs) |-> exs[i].id]

\* exchanges.findIndex(exchange => exchange.id === id), 1-based (0: not found)
findIndex(exs, id) ==
    IF \E i \in 1..Len(exs) : exs[i].id = id
    THEN CHOOSE i \in 1..Len(exs) : exs[i].id = id /\ \A j \in 1..(i - 1) : exs[j].id # id
    ELSE 0

removeExchange_Last(exs, id) ==
    IF findIndex(exs, id) = 0 THEN exs ELSE SubSeq(exs, 1, Len(exs) - 1)

\* ChatModel.removeExchange: splice(index, 1) when the id is found
removeExchange(exs, id) ==
    IF findIndex(exs, id) = 0 THEN exs
    ELSE [i \in 1..(Len(exs) - 1) |-> IF i < findIndex(exs, id) THEN exs[i] ELSE exs[i + 1]]

\* if (exchange instanceof ChatResponseModel) exchange.dispose()
DisposedBy(exs, id) ==
    IF findIndex(exs, id) # 0 /\ exs[findIndex(exs, id)].type = "response" THEN {id} ELSE {}

exchangesToRemove_AfterItem(exs, id) == IdsOf(SubSeq(exs, findIndex(exs, id) + 1, Len(exs)))

\* chatExchanges.slice(itemIndex)
exchangesToRemove(exs, id) == IdsOf(SubSeq(exs, findIndex(exs, id), Len(exs)))

\* an edit of the agent lands in a file of the working set
ApplyEdit(f) ==
    /\ editCount < MaxEdits
    /\ \E i \in 1..Len(exchanges) : exchanges[i].type = "response"
    /\ editCount' = editCount + 1
    /\ workingSet' = [workingSet EXCEPT ![f] = editCount + 1]
    /\ UNCHANGED <<snapshots, revert>>
    /\ UNCHANGED <<chatVars, notChatVars>>

\* RemoveAction.run up to its first await
RevertStart(i) ==
    /\ revert.pc \in {"idle", "done"}
    /\ i \in 1..Len(exchanges)
    /\ revert' = [pc |-> "restore",
                  exchangeId |-> exchanges[i].id,
                  toRemove |-> exchangesToRemove(exchanges, exchanges[i].id),
                  before |-> IdsOf(SubSeq(exchanges, 1, i - 1))]
    /\ UNCHANGED <<workingSet, snapshots, editCount>>
    /\ UNCHANGED <<chatVars, notChatVars>>

\* session.restoreSnapshot(snapshotExchangeId) resolves
restoreSnapshot ==
    /\ revert.pc = "restore"
    /\ workingSet' = MapGet(snapshots, revert.exchangeId, workingSet)
    /\ revert' = [revert EXCEPT !.pc = "remove"]
    /\ UNCHANGED <<snapshots, editCount>>
    /\ UNCHANGED <<chatVars, notChatVars>>

\* one iteration of the loop: await chatService.removeExchange(item.sessionId, exchange.id)
RevertRemove ==
    /\ revert.pc = "remove"
    /\ exchanges' = removeExchange(exchanges, Head(revert.toRemove))
    /\ revert' = [revert EXCEPT !.toRemove = Tail(@),
                                !.pc = IF Tail(revert.toRemove) = <<>> THEN "done" ELSE "remove"]
    /\ changeEvents' =
           IF findIndex(exchanges, Head(revert.toRemove)) # 0
           THEN <<ChangeEvent("removeExchange", Head(revert.toRemove), "Removal", {})>>
           ELSE <<>>
    /\ disposed' = disposed \cup DisposedBy(exchanges, Head(revert.toRemove))
    /\ UNCHANGED <<nextRequestId, nextResponseId, chatOps, restored, constructLog, lastExchangeComplete>>
    /\ UNCHANGED <<workingSet, snapshots, editCount>>
    /\ UNCHANGED notChatVars

RevertNext ==
    \/ \E message \in Messages : addRequest(message)
    \/ addResponse
    \/ \E f \in Files : ApplyEdit(f)
    \/ \E i \in 1..MaxExchanges : RevertStart(i)
    \/ restoreSnapshot
    \/ RevertRemove

-----------------------------------------------------------------------------
(* Chat model: results, removal and soft-hiding of exchanges *)

\* a codeCitation progress fragment
CitationFragment(license) == [kind |-> "codeCitation", license |-> license]

\* ChatResponseModel.setResult(result) on the response at position i; redacted is
\* result.errorDetails.responseIsRedacted
setResult(i, redacted) ==
    /\ i \in 1..Len(exchanges)
    /\ exchanges[i].type = "response"
    /\ exchanges' = [exchanges EXCEPT ![i].responseIsRedacted = redacted]
    /\ changeEvents' = <<>>
    /\ UNCHANGED <<nextRequestId, nextResponseId, chatOps, restored, constructLog, lastExchangeComplete,
                   disposed>>
    /\ UNCHANGED editVars
    /\ UNCHANGED notChatVars

\* ChatModel.removeExchange(id, reason)
RemoveExchange(id, reason) ==
    /\ exchanges' = removeExchange(exchanges, id)
    /\ changeEvents' = IF findIndex(exchanges, id) # 0
                       THEN <<ChangeEvent("removeExchange", id, reason, {})>>
                       ELSE <<>>
    /\ disposed' = disposed \cup DisposedBy(exchanges, id)
    /\ UNCHANGED <<nextRequestId, nextResponseId, chatOps, restored, constructLog, lastExchangeComplete>>
    /\ UNCHANGED editVars
    /\ UNCHANGED notChatVars

shouldBeRemovedOnSend_Sticky(toHide, exchange) == exchange.isHidden \/ exchange.id \in toHide

\* const shouldBeRemovedOnSend = toHide.has(exchange.id)
shouldBeRemovedOnSend(toHide, exchange) == exchange.id \in toHide

disableRequests_EventOnly(requestIds) ==
    /\ changeEvents' = <<ChangeEvent("setHidden", "", "", requestIds)>>
    /\ UNCHANGED <<exchanges, nextRequestId, nextResponseId, chatOps, restored, constructLog,
                   lastExchangeComplete, disposed>>
    /\ UNCHANGED editVars
    /\ UNCHANGED notChatVars

\* ChatModel.disableRequests(requestIds)
disableRequests(requestIds) ==
    /\ exchanges' = [i \in 1..Len(exchanges) |->
                         [exchanges[i] EXCEPT
                              !.isHidden = shouldBeRemovedOnSend(requestIds, exchanges[i])]]
    /\ changeEvents' = <<ChangeEvent("setHidden", "", "", requestIds)>>
    /\ UNCHANGED <<nextRequestId, nextResponseId, chatOps, restored, constructLog, lastExchangeComplete,
                   disposed>>
    /\ UNCHANGED editVars
    /\ UNCHANGED notChatVars

\* ChatModel.disableExchange(id): with no such exchange, exchange is undefined and the
\* assignment to its property throws a TypeError
disableExchange(id) ==
    /\ exchanges' = IF findIndex(exchanges, id) = 0 THEN exchanges
                    ELSE [exchanges EXCEPT ![findIndex(exchanges, id)].isHidden = TRUE]
    /\ changeEvents' = <<>>
    /\ UNCHANGED <<nextRequestId, nextResponseId, chatOps, restored, constructLog, lastExchangeComplete,
                   disposed>>
    /\ UNCHANGED editVars
    /\ UNCHANGED notChatVars

ExchangeProgress ==
    {MarkdownFragment(NewMarkdownString("Let me look")), CitationFragment("MIT")}

RemovalReasons == {"Removal", "Resend"}

\* the ids given to removeExchange, disableRequests and disableExchange
GivenIds == {RequestIdOf(0), ExchangeIdOf(0), ExchangeIdOf(1)}

ExchangesNext ==
    \/ \E message \in Messages : addRequest(message)
    \/ addResponse
    \/ \E i \in 1..MaxExchanges : completeResponse(i)
    \/ \E id \in GivenIds, reason \in RemovalReasons : RemoveExchange(id, reason)
    \/ \E requestIds \in SUBSET GivenIds : disableRequests(requestIds)
    \/ \E id \in GivenIds : disableExchange(id)

\* a response receives progress and a result and is completed
CompleteNext ==
    \/ addResponse
    \/ \E i \in 1..MaxExchanges, progress \in ExchangeProgress :
           acceptResponseProgress(i, progress)
    \/ \E i \in 1..MaxExchanges : setResult(i, TRUE)
    \/ \E i \in 1..MaxExchanges : completeResponse(i)

-----------------------------------------------------------------------------
(* Streamed edits: provideEditStreamed *)

EditRequestIds == {"edit-1", "edit-2"}

EditFiles == {"/foo.ts", "/new.ts"}

\* the file, the session and the exchange of each edit stream
EditTargets ==
    ("edit-1" :> [fs_file_path |-> "/foo.ts", session_id |-> "a-1", exchange_id |-> "response_0"])
    @@ ("edit-2" :> [fs_file_path |-> "/new.ts", session_id |-> "a-1", exchange_id |-> "response_1"])

\* EditedCodeStreamingRequest; delta is the text of a Delta event, a sequence of characters
EditRequest(event, delta, id, apply_directly) ==
    [event |-> event, delta |-> delta, edit_request_id |-> id,
     fs_file_path |-> EditTargets[id].fs_file_path,
     session_id |-> EditTargets[id].session_id,
     exchange_id |-> EditTargets[id].exchange_id,
     apply_directly |-> apply_directly]

NoEditRequest == EditRequest("none", <<>>, "edit-1", FALSE)

\* new AnswerSplitOnNewLineAccumulatorStreaming(): the complete lines not yet taken and
\* the text after the last line break
NewSplitter == [lines |-> <<>>, accumulator |-> <<>>]

RECURSIVE addDelta(_, _)
\* answerSplitter.addDelta: the text is added and every line it completes is queued
addDelta(splitter, delta) ==
    IF delta = <<>> THEN splitter
    ELSE IF Head(delta) = "\n"
         THEN addDelta([lines |-> Append(splitter.lines, splitter.accumulator),
                        accumulator |-> <<>>], Tail(delta))
         ELSE addDelta([splitter EXCEPT !.accumulator = Append(@, Head(delta))], Tail(delta))

\* new StreamProcessor(...)
NewProcessor(n) == [constructed |-> n, processed |-> <<>>, cleaned |-> 0]

\* while (true) { getLine(); if null break; await processLine(currentLine) }
Drain(processor, splitter) == [processor EXCEPT !.processed = @ \o splitter.lines]

HasEntry(id) == \E c \in editsMap : c.key = id

\* the result of a call: its request, what it returned and whether it threw
EditResult(request, success, threw) == [request |-> request, success |-> success, threw |-> threw]

StreamedInit ==
    /\ editsMap = {}
    /\ editCounter = 0
    /\ streamProcessors = [id \in EditRequestIds |-> NewProcessor(0)]
    /\ disk = [f \in EditFiles |-> f = "/foo.ts"]
    /\ savedFiles = [f \in EditFiles |-> 0]
    /\ errorMessages = <<>>
    /\ editStream = [id \in EditRequestIds |->
                        [phase |-> "new", deltas |-> 0, apply_directly |-> FALSE,
                         startOk |-> FALSE, aborted |-> FALSE, ends |-> 0]]
    /\ lastEdit = EditResult(NoEditRequest, FALSE, FALSE)

\* if (!request.apply_directly && !this.openResponseStream && !responseStream);
\* openResponseStream is never assigned
NoStreamGate(request) ==
    /\ ~request.apply_directly
    /\ getResponseStream(request.session_id, request.exchange_id) = 0

\* provideEditStreamed(request); creatable: whether createFileIfNotExists succeeds
provideEditStreamed(request, creatable) ==
    LET id == request.edit_request_id
        file == request.fs_file_path
        splitter == MapGet(editsMap, id, NewSplitter)
    IN  IF NoStreamGate(request)
        THEN /\ lastEdit' = EditResult(request, FALSE, FALSE)
             /\ UNCHANGED <<editsMap, editCounter, streamProcessors, disk, savedFiles,
                            errorMessages>>
        ELSE IF request.event = "Start"
        THEN IF disk[file] \/ creatable
             THEN /\ disk' = [disk EXCEPT ![file] = TRUE]
                  /\ editsMap' = MapSet(editsMap, id, NewSplitter)
                  /\ streamProcessors' = [streamProcessors EXCEPT
                         ![id] = NewProcessor(@.constructed + 1)]
                  /\ lastEdit' = EditResult(request, TRUE, FALSE)
                  /\ UNCHANGED <<editCounter, savedFiles, errorMessages>>
             ELSE /\ errorMessages' = Append(errorMessages,
                         "File creation at " \o file \o " failed, please tell the devs!")
                  /\ lastEdit' = EditResult(request, FALSE, FALSE)
                  /\ UNCHANGED <<editsMap, editCounter, streamProcessors, disk, savedFiles>>
        ELSE IF request.event = "End"
        THEN IF ~HasEntry(id)
             THEN \* editsManager is undefined: editsManager.answerSplitter throws a TypeError
                  /\ lastEdit' = EditResult(request, FALSE, TRUE)
                  /\ UNCHANGED <<editsMap, editCounter, streamProcessors, disk, savedFiles,
                                 errorMessages>>
             ELSE /\ streamProcessors' = [streamProcessors EXCEPT
                         ![id] = [Drain(@, splitter) EXCEPT !.cleaned = @ + 1]]
                  /\ savedFiles' = [savedFiles EXCEPT ![file] = @ + 1]
                  /\ editsMap' = MapDelete(editsMap, id)
                  /\ editCounter' = editCounter + 1
                  /\ lastEdit' = EditResult(request, TRUE, FALSE)
                  /\ UNCHANGED <<disk, errorMessages>>
        ELSE \* Delta
             /\ IF HasEntry(id)
                THEN /\ editsMap' = MapSet(editsMap, id,
                            [addDelta(splitter, request.delta) EXCEPT !.lines = <<>>])
                     /\ streamProcessors' = [streamProcessors EXCEPT
                            ![id] = Drain(@, addDelta(splitter, request.delta))]
                ELSE UNCHANGED <<editsMap, streamProcessors>>
             /\ lastEdit' = EditResult(request, TRUE, FALSE)
             /\ UNCHANGED <<editCounter, disk, savedFiles, errorMessages>>

DeltaTexts == {<<"a">>, <<"b", "\n">>}

\* the backend sends the events of one edit stream in order: Start, Delta*, End
SendStart(id, apply_directly, creatable) ==
    /\ editStream[id].phase = "new"
    /\ provideEditStreamed(EditRequest("Start", <<>>, id, apply_directly), creatable)
    /\ editStream' = [editStream EXCEPT ![id] =
           [@ EXCEPT !.phase = "streaming", !.apply_directly = apply_directly,
                     !.startOk = lastEdit'.success,
                     \* the file could not be opened and could not be created
                     !.aborted = /\ ~NoStreamGate(EditRequest("Start", <<>>, id, apply_directly))
                                 /\ ~disk[EditTargets[id].fs_file_path]
                                 /\ ~creatable]]
    /\ UNCHANGED notStreamedVars

SendDelta(id, delta) ==
    /\ editStream[id].phase = "streaming"
    /\ editStream[id].deltas < MaxDeltas
    /\ provideEditStreamed(EditRequest("Delta", delta, id, editStream[id].apply_directly), FALSE)
    /\ editStream' = [editStream EXCEPT ![id].deltas = @ + 1]
    /\ UNCHANGED notStreamedVars

SendEnd(id) ==
    /\ editStream[id].phase = "streaming"
    /\ provideEditStreamed(EditRequest("End", <<>>, id, editStream[id].apply_directly), FALSE)
    /\ editStream' = [editStream EXCEPT ![id] = [@ EXCEPT !.phase = "ended", !.ends = @ + 1]]
    /\ UNCHANGED notStreamedVars

\* the dispatcher events that end an exchange while edits are streamed
EditDispatchEvents ==
    {Event("FinishedExchange", EditTargets[id].session_id, EditTargets[id].exchange_id, "", "") :
         id \in EditRequestIds}

StreamedNext ==
    \/ Len(streams) < MaxStreams /\ newExchangeIdForSession("a-1")
    \/ \E r \in RunIds : StartRun(r)
    \/ \E r \in runs, ev \in Drawn(EditDispatchEvents) : Dispatch(r, ev)
    \/ \E id \in EditRequestIds, apply_directly \in BOOLEAN, creatable \in BOOLEAN :
           SendStart(id, apply_directly, creatable)
    \/ \E id \in EditRequestIds, delta \in DeltaTexts : SendDelta(id, delta)
    \/ \E id \in EditRequestIds : SendEnd(id)

-----------------------------------------------------------------------------
(* Chat model: initialization state machine *)

\* new DeferredPromise<void>(): the n-th promise made for this model; p is the state of
\* the promise waitForInitialization returns
NewDeferred(n) == [n |-> n, p |-> "pending", error |-> "", isSettled |-> FALSE]

\* DeferredPromise.complete(): the promise p is resolved unless it is settled already
DeferredComplete(d) == [d EXCEPT !.p = IF d.p = "pending" THEN "resolved" ELSE d.p,
                                 !.isSettled = TRUE]

\* DeferredPromise.error(err)
DeferredError(d, err) == [d EXCEPT !.p = IF d.p = "pending" THEN "rejected" ELSE d.p,
                                   !.error = IF d.p = "pending" THEN err ELSE d.error,
                                   !.isSettled = TRUE]

NoInitOp == [op |-> "none", threw |-> FALSE]

InitInit ==
    /\ initState = "Created"
    /\ isInitializedDeferred = NewDeferred(0)
    /\ welcomeMessage = "undefined"
    /\ initFired = 0
    /\ initOps = 0
    /\ lastInit = NoInitOp

\* what every call does besides its own effect: it is counted and recorded
InitCall(op, threw) ==
    /\ initOps < MaxInitOps
    /\ initOps' = initOps + 1
    /\ lastInit' = [op |-> op, threw |-> threw]
    /\ UNCHANGED notInitVars

startInitializeThrows_Never(state) == FALSE

\* if (this.initState !== ChatModelInitState.Created) throw
startInitializeThrows(state) == state # "Created"

startInitialize ==
    /\ InitCall("startInitialize", startInitializeThrows(initState))
    /\ IF startInitializeThrows(initState)
       THEN UNCHANGED initState
       ELSE initState' = "Initializing"
    /\ UNCHANGED <<isInitializedDeferred, welcomeMessage, initFired>>

deinitialize ==
    /\ InitCall("deinitialize", FALSE)
    /\ initState' = "Created"
    /\ isInitializedDeferred' = NewDeferred(isInitializedDeferred.n + 1)
    /\ UNCHANGED <<welcomeMessage, initFired>>

initialize(message) ==
    /\ InitCall("initialize", initState # "Initializing")
    /\ IF initState # "Initializing"
       THEN UNCHANGED <<initState, isInitializedDeferred, welcomeMessage, initFired>>
       ELSE /\ initState' = "Initialized"
            /\ welcomeMessage' = message
            /\ isInitializedDeferred' = DeferredComplete(isInitializedDeferred)
            /\ initFired' = initFired + 1

setInitializationError(err) ==
    /\ InitCall("setInitializationError", initState # "Initializing")
    /\ IF initState # "Initializing"
       THEN UNCHANGED isInitializedDeferred
       ELSE isInitializedDeferred' =
                IF ~isInitializedDeferred.isSettled THEN DeferredError(isInitializedDeferred, err)
                ELSE isInitializedDeferred
    /\ UNCHANGED <<initState, welcomeMessage, initFired>>

WelcomeMessages == {"undefined", "Welcome"}

InitErrors == {"no agent", "timeout"}

InitNext ==
    \/ startInitialize
    \/ deinitialize
    \/ \E message \in WelcomeMessages : initialize(message)
    \/ \E err \in InitErrors : setInitializationError(err)

-----------------------------------------------------------------------------
(* Editing session: modified-file entries, working-set metadata and the list
   the chat input part shows *)

\* const enum WorkingSetEntryState
WorkingSetEntryState ==
    [Modified |-> 0, Accepted |-> 1, Rejected |-> 2, Transient |-> 3,
     Attached |-> 4, Sent |-> 5, Suggested |-> 6]

SessionUris == {"file:///a.ts", "file:///b.ts"}

\* a.reference.toString().localeCompare(b.reference.toString())
localeCompare(a, b) == IF a = b THEN 0 ELSE IF a = "file:///a.ts" THEN -1 ELSE 1

\* IChatEditingSession.getEntry(uri): the position of the entry (0: none)
getEntry(uri) ==
    IF \E i \in 1..Len(entries) : entries[i].modifiedURI = uri
    THEN CHOOSE i \in 1..Len(entries) : entries[i].modifiedURI = uri
    ELSE 0

\* ResourceMap.set: a key that is present keeps its place
ResourceMapSet(map, file, state) ==
    IF \E i \in 1..Len(map) : map[i].file = file
    THEN [i \in 1..Len(map) |-> IF map[i].file = file THEN [map[i] EXCEPT !.state = state]
                                 ELSE map[i]]
    ELSE Append(map, [file |-> file, state |-> state])

SessionInit ==
    /\ entries = <<>>
    /\ workingSetMetadata = <<>>
    /\ chatEditList = <<>>
    /\ sessionChanged = FALSE

\* inserts or updates the working-set metadata of the file
addFileToWorkingSet(uri, kind) ==
    /\ workingSetMetadata' = ResourceMapSet(workingSetMetadata, uri, kind)
    /\ sessionChanged' = TRUE
    /\ UNCHANGED <<entries, chatEditList>>
    /\ UNCHANGED notSessionVars

\* a streamed edit: the first one for a file creates its modified-file entry and puts the
\* file into the working set if it is not there yet
textEdits(resource) ==
    /\ entries' = IF getEntry(resource) # 0 THEN entries
                   ELSE Append(entries, [modifiedURI |-> resource,
                                         state |-> WorkingSetEntryState.Modified])
    /\ workingSetMetadata' =
           IF \E i \in 1..Len(workingSetMetadata) : workingSetMetadata[i].file = resource
           THEN workingSetMetadata
           ELSE ResourceMapSet(workingSetMetadata, resource, WorkingSetEntryState.Modified)
    /\ sessionChanged' = TRUE
    /\ UNCHANGED chatEditList
    /\ UNCHANGED notSessionVars

\* mutant: an entry that was already decided is decided again
settle_Again(entry, state) == [entry EXCEPT !.state = state]

\* IModifiedFileEntry.accept / reject: only a Modified entry moves
settle(entry, state) ==
    IF entry.state = WorkingSetEntryState.Modified THEN [entry EXCEPT !.state = state]
    ELSE entry

\* accept(...uris) / reject(...uris): no URIs means all undecided entries; a change event
\* is fired when an entry moved
settleEntries(uris, state) ==
    /\ entries' = [i \in 1..Len(entries) |->
                      IF uris = {} \/ entries[i].modifiedURI \in uris
                      THEN settle(entries[i], state) ELSE entries[i]]
    /\ sessionChanged' = (entries' # entries)
    /\ UNCHANGED <<workingSetMetadata, chatEditList>>
    /\ UNCHANGED notSessionVars

accept(uris) == settleEntries(uris, WorkingSetEntryState.Accepted)

reject(uris) == settleEntries(uris, WorkingSetEntryState.Rejected)

\* mutant: the URIs of the modified-file entries are not looked at
Shown_IgnoresSeen(file, state, seenEntries) == state # WorkingSetEntryState.Suggested

\* !seenEntries.has(file) && metadata.state !== WorkingSetEntryState.Suggested
Shown(file, state, seenEntries) ==
    file \notin seenEntries /\ state # WorkingSetEntryState.Suggested

\* the loop over chatEditingSession.workingSet.entries(): entries.unshift, seenEntries.add
RECURSIVE unshiftWorkingSet(_, _, _)
unshiftWorkingSet(list, seenEntries, map) ==
    IF map = <<>> THEN list
    ELSE IF Shown(Head(map).file, Head(map).state, seenEntries)
    THEN unshiftWorkingSet(<<[reference |-> Head(map).file, state |-> Head(map).state]>> \o list,
                           seenEntries \cup {Head(map).file}, Tail(map))
    ELSE unshiftWorkingSet(list, seenEntries, Tail(map))

\* the comparator of entries.sort: by URI for equal states, else by state
compareEntries(a, b) ==
    IF a.state = b.state THEN localeCompare(a.reference, b.reference) ELSE a.state - b.state

RECURSIVE insertSorted(_, _)
insertSorted(x, sorted) ==
    IF sorted = <<>> THEN <<x>>
    ELSE IF compareEntries(x, Head(sorted)) <= 0 THEN <<x>> \o sorted
    ELSE <<Head(sorted)>> \o insertSorted(x, Tail(sorted))

RECURSIVE sortEntries(_)
sortEntries(list) ==
    IF list = <<>> THEN <<>> ELSE insertSorted(Head(list), sortEntries(Tail(list)))

\* ChatInputPart.renderChatEditingSessionState for a session: the modified-file entries,
\* then the working-set files not seen yet and not Suggested, sorted, spliced into the list
renderChatEditingSessionState ==
    /\ chatEditList' =
           sortEntries(unshiftWorkingSet(
               [i \in 1..Len(entries) |-> [reference |-> entries[i].modifiedURI,
                                           state |-> entries[i].state]],
               {entries[i].modifiedURI : i \in 1..Len(entries)},
               workingSetMetadata))
    /\ UNCHANGED <<entries, workingSetMetadata, sessionChanged>>
    /\ UNCHANGED notSessionVars

SessionNext ==
    \/ \E uri \in SessionUris,
          kind \in {WorkingSetEntryState.Transient, WorkingSetEntryState.Suggested} :
           addFileToWorkingSet(uri, kind)
    \/ \E resource \in SessionUris : textEdits(resource)
    \/ \E uris \in SUBSET SessionUris : accept(uris)
    \/ \E uris \in SUBSET SessionUris : reject(uris)
    \/ renderChatEditingSessionState

-----------------------------------------------------------------------------
(* View models: ChatViewModel and its request and response items *)

\* ChatResponseModel.setVote
setVote(response, vote) == [response EXCEPT !.vote = vote]

\* mutant: the reason is written into the vote
setVoteDownReason_WritesVote(response, reason) == [response EXCEPT !.vote = reason]

\* ChatResponseModel.setVoteDownReason
setVoteDownReason(response, reason) == [response EXCEPT !.voteDownReason = reason]

\* ChatResponseModel.setEditApplied for the k-th part: false unless the part is one of the
\* response and has a state object
setEditApplied(response, k, applied) ==
    IF k \notin 1..Len(response.parts) \/ "state" \notin DOMAIN response.parts[k]
    THEN response
    ELSE [response EXCEPT !.parts[k].state = [applied |-> applied]]

\* new ChatRequestViewModel(exchange) / new ChatResponseViewModel(responseModel)
NewViewModel(id, type) ==
    [id |-> id, type |-> type, isFirst |-> FALSE, isLast |-> (type = "response"),
     modelChangeCount |-> 0]

\* the last response item that has isLast set (0: none)
LastIsLast(its) ==
    LET hits == {i \in 1..Len(its) : its[i].type = "response" /\ its[i].isLast}
    IN  IF hits = {} THEN 0 ELSE CHOOSE i \in hits : \A j \in hits : j <= i

\* ChatViewModel.addItem
addItem(its, item) ==
    LET cleared == IF LastIsLast(its) # 0
                   THEN [its EXCEPT ![LastIsLast(its)].isLast = FALSE] ELSE its
        pushed == Append(cleared, item)
    IN  IF item.type = "response"
        THEN [pushed EXCEPT ![Len(pushed)].isFirst =
                  (Len(pushed) >= 2 /\ pushed[Len(pushed) - 1].type = "request")]
        ELSE pushed

\* ChatViewModel.removeItem(index), index 1-based (0: not found)
removeItem(its, index) ==
    IF index >= 1
    THEN [i \in 1..(Len(its) - 1) |-> IF i < index THEN its[i] ELSE its[i + 1]]
    ELSE its

NoChangeEvent == ChangeEvent("", "", "", {})

ViewInit ==
    /\ items = <<>>
    /\ inputPlaceholder = Undefined
    /\ viewChange = <<>>
    /\ lastHandled = NoChangeEvent
    /\ viewOps = 0

\* the ChatViewModel event that a model event is turned into
modelEventToVmEvent(e) ==
    IF e.kind \in {"addRequest", "initialize", "setHidden"} THEN e.kind ELSE "null"

\* the listener ChatViewModel registers on _model.onDidChange, for the event just fired
onDidChangeModel ==
    /\ viewOps < MaxViewOps
    /\ changeEvents # <<>>
    /\ changeEvents[1] # lastHandled
    /\ LET e == changeEvents[1]
       IN  /\ items' = IF e.kind = "addRequest"
                        THEN addItem(items, NewViewModel(e.exchangeId, "request"))
                        ELSE IF e.kind = "addResponse"
                        THEN addItem(items, NewViewModel(e.exchangeId, "response"))
                        ELSE IF e.kind = "removeExchange"
                        THEN removeItem(items, findIndex(items, e.exchangeId))
                        ELSE items
           /\ viewChange' = <<modelEventToVmEvent(e)>>
           /\ lastHandled' = e
    /\ viewOps' = viewOps + 1
    /\ UNCHANGED inputPlaceholder
    /\ UNCHANGED notViewVars

\* the position of the response item with the id (0: none)
ResponseItem(id) ==
    IF findIndex(items, id) # 0 /\ items[findIndex(items, id)].type = "response"
    THEN findIndex(items, id) ELSE 0

\* the listener ChatResponseViewModel registers on its model's onDidChange
onDidChangeResponse(id) ==
    /\ viewOps < MaxViewOps
    /\ ResponseItem(id) # 0
    /\ items' = [items EXCEPT ![ResponseItem(id)].modelChangeCount = @ + 1]
    /\ viewChange' = <<"null">>
    /\ viewOps' = viewOps + 1
    /\ UNCHANGED <<inputPlaceholder, lastHandled>>
    /\ UNCHANGED notViewVars

\* ChatViewModel.setInputPlaceholder / resetInputPlaceholder
setInputPlaceholder(text) ==
    /\ viewOps < MaxViewOps
    /\ inputPlaceholder' = text
    /\ viewChange' = <<"changePlaceholder">>
    /\ viewOps' = viewOps + 1
    /\ UNCHANGED <<items, lastHandled>>
    /\ UNCHANGED notViewVars

resetInputPlaceholder == setInputPlaceholder(Undefined)

\* a ChatResponseViewModel call that goes on to its model: fires is the number of
\* onDidChange events of the model, each counted by the item's own listener
WriteThrough(id, written(_), fires) ==
    /\ viewOps < MaxViewOps
    /\ ResponseItem(id) # 0
    /\ items' = [items EXCEPT ![ResponseItem(id)].modelChangeCount = @ + 1 + fires]
    /\ viewChange' = IF fires > 0 THEN <<"null">> ELSE viewChange
    /\ viewOps' = viewOps + 1
    /\ exchanges' = IF findIndex(exchanges, id) # 0
                     THEN [exchanges EXCEPT ![findIndex(exchanges, id)] = written(@)]
                     ELSE exchanges
    /\ UNCHANGED <<inputPlaceholder, lastHandled>>
    /\ UNCHANGED <<nextRequestId, nextResponseId, chatOps, restored, constructLog,
                   lastExchangeComplete, changeEvents, disposed>>
    /\ UNCHANGED notChatViewVars

\* ChatResponseViewModel.setVote / setVoteDownReason / setEditApplied
ViewSetVote(id, vote) == WriteThrough(id, LAMBDA r : setVote(r, vote), 1)

ViewSetVoteDownReason(id, reason) == WriteThrough(id, LAMBDA r : setVoteDownReason(r, reason), 1)

ViewSetEditApplied(id, k, applied) ==
    WriteThrough(id, LAMBDA r : setEditApplied(r, k, applied), 0)

Votes == {"up", "down"}

VoteDownReasons == {"incorrectCode", Undefined}

ViewIds == {RequestIdOf(0), ExchangeIdOf(0), ExchangeIdOf(1)}

ViewNext ==
    \/ \E message \in Messages : addRequest(message)
    \/ addResponse
    \/ \E id \in ViewIds : RemoveExchange(id, "Removal")
    \/ onDidChangeModel
    \/ \E id \in ViewIds : onDidChangeResponse(id)
    \/ setInputPlaceholder("Ask a follow-up")
    \/ resetInputPlaceholder
    \/ \E id \in ViewIds, vote \in Votes : ViewSetVote(id, vote)
    \/ \E id \in ViewIds, reason \in VoteDownReasons : ViewSetVoteDownReason(id, reason)
    \/ \E id \in ViewIds : ViewSetEditApplied(id, 1, 1)

\* the listener of the view model has run for the event the model fired last: fire()
\* calls it before the model operation returns
ListenerDone == IF changeEvents = <<>> THEN TRUE ELSE changeEvents[1] = lastHandled

\* model operations, each followed by the view model's listener before the next one
\* (disableExchange fires no event)
InStepNext ==
    \/ ListenerDone /\ \E message \in Messages : addRequest(message)
    \/ ListenerDone /\ addResponse
    \/ ListenerDone /\ \E id \in ViewIds : RemoveExchange(id, "Removal")
    \/ ListenerDone /\ \E id \in ViewIds : disableExchange(id)
    \/ ~ListenerDone /\ onDidChangeModel

-----------------------------------------------------------------------------
(* Authentication: CSAuthenticationService.refreshTokens *)

MAX_REFRESH_RETRIES == 3

\* what the refresh request can come back with: response.ok, 401, a 5xx, another 4xx,
\* or a rejected fetch
FetchOutcomes == {"ok", "401", "5xx", "4xx", "network error"}

ExpiredMessage == "Your CodeStory session has expired. Please sign in again."

FailedMessage == "Failed to refresh CodeStory session after 3 attempts."

\* the error lastError holds after a failed attempt
ErrorOf(outcome) ==
    IF outcome = "401" THEN "Refresh token invalid or expired"
    ELSE IF outcome = "5xx" THEN "Server error"
    ELSE IF outcome = "4xx" THEN "Unexpected HTTP status on refresh"
    ELSE outcome

IdleRefresh ==
    [pc |-> "idle", attempts |-> 0, requests |-> 0, lastError |-> "", okSeen |-> FALSE,
     stored |-> FALSE, scheduled |-> 0, outcome |-> "none", error |-> ""]

AuthInit ==
    /\ session = 0
    /\ secretStored = FALSE
    /\ refresh = IdleRefresh
    /\ notifications = <<>>
    /\ refreshCalls = 0

\* createSession / setSession: a session is stored (sessions are numbered)
createSession ==
    /\ ~secretStored
    /\ refresh.pc = "idle"
    /\ session' = 1
    /\ secretStored' = TRUE
    /\ UNCHANGED <<refresh, notifications, refreshCalls>>
    /\ UNCHANGED notAuthVars

\* deleteSession: the key is deleted from the secret storage, this._session is kept
deleteSession ==
    /\ secretStored' = FALSE
    /\ UNCHANGED <<session, refresh, notifications, refreshCalls>>
    /\ UNCHANGED notAuthVars

\* getSession({hardCheck: false}) of a session with an account: the session read from
\* the secret storage, undefined (0) when the storage holds none
getSession == IF secretStored THEN session ELSE 0

\* refreshTokens is called: without a session it returns at once
refreshTokens ==
    /\ refresh.pc = "idle"
    /\ refreshCalls < MaxRefreshCalls
    /\ refreshCalls' = refreshCalls + 1
    /\ notifications' = <<>>
    /\ refresh' = IF session = 0
                   THEN [IdleRefresh EXCEPT !.outcome = "returned"]
                   ELSE [IdleRefresh EXCEPT !.pc = "loop"]
    /\ UNCHANGED <<session, secretStored>>
    /\ UNCHANGED notAuthVars

\* mutant: one attempt more
Retrying_OneMore(attempts) == attempts <= MAX_REFRESH_RETRIES

\* while (attempts < this.MAX_REFRESH_RETRIES)
Retrying(attempts) == attempts < MAX_REFRESH_RETRIES

\* the loop test: another request is sent, or the failure is notified and lastError thrown
LoopTest ==
    /\ refresh.pc = "loop"
    /\ IF Retrying(refresh.attempts)
       THEN /\ refresh' = [refresh EXCEPT !.pc = "fetch", !.requests = @ + 1]
            /\ UNCHANGED notifications
       ELSE /\ notifications' = Append(notifications, FailedMessage)
            /\ refresh' = [refresh EXCEPT !.pc = "idle", !.outcome = "rejected",
                                          !.error = refresh.lastError]
    /\ UNCHANGED <<session, secretStored, refreshCalls>>
    /\ UNCHANGED notAuthVars

\* the await of fetch settles
FetchSettles(outcome) ==
    /\ refresh.pc = "fetch"
    /\ IF outcome = "ok"
       THEN /\ refresh' = [refresh EXCEPT !.pc = "getSessionData", !.okSeen = TRUE]
            /\ UNCHANGED <<notifications, secretStored>>
       ELSE \* the throw of the 401 branch is caught by the catch of the loop body
            /\ notifications' = IF outcome = "401" THEN Append(notifications, ExpiredMessage)
                                ELSE notifications
            /\ secretStored' = IF outcome = "401" THEN FALSE ELSE secretStored
            /\ refresh' = [refresh EXCEPT !.pc = "delay", !.lastError = ErrorOf(outcome),
                                          !.attempts = @ + 1]
    /\ UNCHANGED <<session, refreshCalls>>
    /\ UNCHANGED notAuthVars

\* response.json() and getSessionData settle: the session is stored and the next refresh
\* scheduled, or the error is caught by the catch of the loop body
GetSessionDataSettles(ok) ==
    /\ refresh.pc = "getSessionData"
    /\ IF ok
       THEN /\ session' = session + 1
            /\ secretStored' = TRUE
            /\ refresh' = [refresh EXCEPT !.pc = "idle", !.stored = TRUE, !.scheduled = @ + 1,
                                          !.outcome = "returned"]
       ELSE /\ refresh' = [refresh EXCEPT !.pc = "delay",
                                          !.lastError = "Failed to fetch user data",
                                          !.attempts = @ + 1]
            /\ UNCHANGED <<session, secretStored>>
    /\ UNCHANGED <<notifications, refreshCalls>>
    /\ UNCHANGED notAuthVars

\* await delay(1000 * attempts) is over
DelayOver ==
    /\ refresh.pc = "delay"
    /\ refresh' = [refresh EXCEPT !.pc = "loop"]
    /\ UNCHANGED <<session, secretStored, notifications, refreshCalls>>
    /\ UNCHANGED notAuthVars

\* the steps of a call in flight
RefreshStep ==
    \/ LoopTest
    \/ \E outcome \in FetchOutcomes : FetchSettles(outcome)
    \/ \E ok \in BOOLEAN : GetSessionDataSettles(ok)
    \/ DelayOver

AuthNext ==
    \/ createSession
    \/ deleteSession
    \/ refreshTokens
    \/ RefreshStep

-----------------------------------------------------------------------------
(* Streamed edits: the Delta and End handlers of one stream suspended at processLine *)

FlightTexts == {<<"a">>, <<"b", "\n">>, <<"c", "\n", "d", "\n">>}

\* the lines of a text: the complete lines and, when the text does not end with a line
\* break, the partial line after the last one
AllLines(text) ==
    LET splitter == addDelta(NewSplitter, text)
    IN  IF splitter.accumulator = <<>> THEN splitter.lines
        ELSE Append(splitter.lines, splitter.accumulator)

FlightInit ==
    /\ answerSplitter = NewSplitter
    /\ sentText = <<>>
    /\ processLineCalls = <<>>
    /\ cleanups = 0
    /\ handlers = <<>>
    /\ flightPhase = "new"
    /\ entryPresent = FALSE

\* the Start event of the stream was handled: editsMap.set(edit_request_id, ...)
FlightStart ==
    /\ flightPhase = "new"
    /\ flightPhase' = "streaming"
    /\ entryPresent' = TRUE
    /\ UNCHANGED <<answerSplitter, sentText, processLineCalls, cleanups, handlers>>
    /\ UNCHANGED notFlightVars

\* handler h is at position pc; a handler that has just arrived is added
SetHandler(h, handler) ==
    [i \in 1..(IF h > Len(handlers) THEN h ELSE Len(handlers)) |->
        IF i = h THEN handler ELSE handlers[i]]

\* const currentLine = getLine(); if (currentLine === null) break; processLine(currentLine):
\* handler h takes the next line and is suspended at the await, or leaves the loop; the
\* End handler then calls cleanup() and is suspended at the await of save
TakeLine(h, kind, splitter) ==
    IF splitter.lines # <<>>
    THEN /\ answerSplitter' = [splitter EXCEPT !.lines = Tail(@)]
         /\ processLineCalls' = Append(processLineCalls, Head(splitter.lines))
         /\ handlers' = SetHandler(h, [kind |-> kind, pc |-> "processLine"])
         /\ UNCHANGED cleanups
    ELSE /\ answerSplitter' = splitter
         /\ handlers' = SetHandler(h, [kind |-> kind,
                                        pc |-> IF kind = "End" THEN "save" ELSE "done"])
         /\ cleanups' = IF kind = "End" THEN cleanups + 1 ELSE cleanups
         /\ UNCHANGED processLineCalls

\* a Delta event arrives: addDelta, then the loop up to its first await
DeltaArrives(delta) ==
    /\ flightPhase = "streaming"
    /\ Len(handlers) < MaxDeltas
    /\ entryPresent
    /\ sentText' = sentText \o delta
    /\ TakeLine(Len(handlers) + 1, "Delta", addDelta(answerSplitter, delta))
    /\ UNCHANGED <<flightPhase, entryPresent>>
    /\ UNCHANGED notFlightVars

\* the End event arrives, after the Delta events: the loop up to its first await
EndArrives ==
    /\ flightPhase = "streaming"
    /\ entryPresent
    /\ flightPhase' = "ending"
    /\ TakeLine(Len(handlers) + 1, "End", answerSplitter)
    /\ UNCHANGED <<sentText, entryPresent>>
    /\ UNCHANGED notFlightVars

\* the processLine handler h waits for settles: h goes round its loop
ProcessLineSettles(h) ==
    /\ h \in 1..Len(handlers)
    /\ handlers[h].pc = "processLine"
    /\ TakeLine(h, handlers[h].kind, answerSplitter)
    /\ UNCHANGED <<sentText, flightPhase, entryPresent>>
    /\ UNCHANGED notFlightVars

\* the save the End handler waits for settles: editsMap.delete(edit_request_id)
SaveSettles(h) ==
    /\ h \in 1..Len(handlers)
    /\ handlers[h].pc = "save"
    /\ handlers' = [handlers EXCEPT ![h].pc = "done"]
    /\ entryPresent' = FALSE
    /\ flightPhase' = "ended"
    /\ UNCHANGED <<answerSplitter, sentText, processLineCalls, cleanups>>
    /\ UNCHANGED notFlightVars

FlightNext ==
    \/ FlightStart
    \/ \E delta \in FlightTexts : DeltaArrives(delta)
    \/ EndArrives
    \/ \E h \in 1..(MaxDeltas + 1) : ProcessLineSettles(h)
    \/ \E h \in 1..(MaxDeltas + 1) : SaveSettles(h)

-----------------------------------------------------------------------------
(* AideResponseStreamCollection under arbitrary id strings *)

\* session ids and exchange ids, with and without '-'
SessionIdStrings == {"a", "a-1"}

ExchangeIdStrings == {"x", "1-x"}

NoPair == [sessionId |-> "", exchangeId |-> ""]

CollInit ==
    /\ collectionMap = {}
    /\ pairStreams = [s \in SessionIdStrings |-> [e \in ExchangeIdStrings |-> 0]]
    /\ collAdds = 0
    /\ lastGet = [pair |-> NoPair, stream |-> 0]

\* addResponseStream: this.responseStreamCollection.set(this.getKey(identifier), stream)
addResponseStream(sessionId, exchangeId) ==
    /\ collAdds < MaxAdds
    /\ collAdds' = collAdds + 1
    /\ collectionMap' = MapSet(collectionMap, getKey(sessionId, exchangeId), collAdds + 1)
    /\ pairStreams' = [pairStreams EXCEPT ![sessionId][exchangeId] = collAdds + 1]
    /\ UNCHANGED lastGet
    /\ UNCHANGED notCollVars

\* getResponseStream: this.responseStreamCollection.get(this.getKey(identifier))
lookupResponseStream(sessionId, exchangeId) ==
    /\ lastGet' = [pair |-> [sessionId |-> sessionId, exchangeId |-> exchangeId],
                   stream |-> MapGet(collectionMap, getKey(sessionId, exchangeId), 0)]
    /\ UNCHANGED <<collectionMap, pairStreams, collAdds>>
    /\ UNCHANGED notCollVars

\* removeResponseStream: this.responseStreamCollection.delete(this.getKey(identifier))
deleteResponseStream(sessionId, exchangeId) ==
    /\ collectionMap' = MapDelete(collectionMap, getKey(sessionId, exchangeId))
    /\ pairStreams' = [pairStreams EXCEPT ![sessionId][exchangeId] = 0]
    /\ UNCHANGED <<collAdds, lastGet>>
    /\ UNCHANGED notCollVars

CollNext ==
    \/ \E s \in SessionIdStrings, e \in ExchangeIdStrings : addResponseStream(s, e)
    \/ \E s \in SessionIdStrings, e \in ExchangeIdStrings : lookupResponseStream(s, e)
    \/ \E s \in SessionIdStrings, e \in ExchangeIdStrings : deleteResponseStream(s, e)

RespNext ==
    \/ \E md \in MdInputs, quiet \in BOOLEAN : UpdateMarkdown(md, quiet)
    \/ \E uri \in Uris, edits \in EditBatches, done \in DoneFlags, quiet \in BOOLEAN :
           UpdateTextEdit(uri, edits, done, quiet)
    \/ \E quiet \in BOOLEAN : UpdateTask(quiet)
    \/ \E k \in 1..Len(pendingTasks), content \in TaskResults : ResolveTask(k, content)
    \/ \E kind \in OtherKinds, quiet \in BOOLEAN : UpdateOther(kind, quiet)
    \/ \E license \in Licenses : AddCitation(license)
    \/ Clear

Init == RespInit /\ DispInit /\ ChatInit /\ StreamedInit /\ InitInit /\ SessionInit /\ ViewInit /\ AuthInit /\ FlightInit /\ CollInit

SpecResponse == Init /\ [][RespNext]_vars

SpecDispatch == Init /\ [][DispNext]_vars

SpecFanOut == Init /\ [][FanOutNext]_vars

SpecCancel == Init /\ [][CancelNext]_vars

SpecConfined == Init /\ [][ConfinedNext]_vars

SpecClosed == Init /\ [][ClosedNext]_vars

SpecThinking == Init /\ [][ThinkingNext]_vars

SpecChat == Init /\ [][ChatNext]_vars

SpecRevert == Init /\ [][RevertNext]_vars

SpecStreamed == Init /\ [][StreamedNext]_vars

SpecInit == Init /\ [][InitNext]_vars

SpecExchanges == Init /\ [][ExchangesNext]_vars

SpecComplete == Init /\ [][CompleteNext]_vars

SpecCollection == Init /\ [][CollNext]_vars

SpecFlight == Init /\ [][FlightNext]_vars

\* every await of a call in flight settles
SpecAuth == Init /\ [][AuthNext]_vars /\ WF_vars(RefreshStep)

SpecView == Init /\ [][ViewNext]_vars

SpecInStep == Init /\ [][InStepNext]_vars

SpecSession == Init /\ [][SessionNext]_vars

-----------------------------------------------------------------------------
(* Response: markdown fragments of every attribute combination that decides a merge *)

\* markdown strings that differ from new MarkdownString(text) in one attribute each:
\* isTrusted, supportThemeIcons, supportHtml (true and absent) and baseUri (two URIs)
MergeInputs ==
    {NewMarkdownString("Let me look"),
     MdString(" at this.", "false", "false", "false", NoUri),
     MdString("Let me look", "true", "false", "false", NoUri),
     MdString("Let me look", "false", "true", "false", NoUri),
     MdString("Let me look", "false", "false", "true", NoUri),
     MdString("Let me look", "false", "false", Undefined, NoUri),
     MdString("Let me look", "false", "false", "false", BaseUriA),
     MdString(" at this.", "false", "false", "false", BaseUriA),
     MdString("Let me look", "false", "false", "false", BaseUriB)}

MergeNext ==
    \/ \E md \in MergeInputs, quiet \in BOOLEAN : UpdateMarkdown(md, quiet)
    \/ \E quiet \in BOOLEAN : UpdateOther("treeData", quiet)
    \/ Clear

SpecMerge == Init /\ [][MergeNext]_vars

-----------------------------------------------------------------------------
(* Chat model: construction from persisted data of any shape *)

\* persisted exchanges of recognized shape: a response and a request, as toExport writes them
RecognizedExchanges ==
    {ExportExchange(NewResponse(0, <<MarkdownFragment(NewMarkdownString("Let me look"))>>,
                                TRUE, TRUE, FALSE)),
     ExportExchange(NewRequest(0, "Fix the bug in foo.ts", FALSE))}

\* persisted exchanges of unrecognized shape: an unknown type, and a response that has
\* none of response / result / responseErrorDetails
UnrecognizedExchanges ==
    {[type |-> "unknown"],
     [type |-> "response", isHidden |-> FALSE, isCanceled |-> FALSE]}

RECURSIVE SeqsUpTo(_, _)
SeqsUpTo(S, n) ==
    IF n = 0 THEN {<<>>}
    ELSE SeqsUpTo(S, n - 1) \cup {Append(q, x) : q \in {r \in SeqsUpTo(S, n - 1) : Len(r) = n - 1}, x \in S}

\* the typeof of requesterUsername, creationDate and sessionId: the full serialized shape,
\* and each field missing in turn
ScalarShapes ==
    {<<"string", "number", "string">>, <<"undefined", "number", "string">>,
     <<"string", "undefined", "string">>, <<"string", "number", "undefined">>}

\* the persisted data the constructor is given: exchanges is an array of recognized and
\* unrecognized exchanges, or not an array at all
PersistedData ==
    {SessionData(t[1], t[2], t[3], TRUE, raw) :
        t \in ScalarShapes,
        raw \in SeqsUpTo(RecognizedExchanges \cup UnrecognizedExchanges, MaxPersisted)}
    \cup {SessionData(t[1], t[2], t[3], FALSE, <<>>) : t \in ScalarShapes}

RestoreNext ==
    \/ \E initialData \in PersistedData : Construct(initialData)
    \/ addResponse
    \/ \E i \in 1..MaxExchanges : completeResponse(i)

SpecRestore == Init /\ [][RestoreNext]_vars

-----------------------------------------------------------------------------
(* Claims about the response content accumulator *)

GroupsOf(uri) ==
    {i \in 1..Len(responseParts) :
        responseParts[i].kind = "textEditGroup" /\ responseParts[i].uri = uri}

\* C2: however textEdit fragments with non-empty edit lists for two URIs interleave
\* (with other fragments in between), the response holds exactly one textEditGroup per
\* URI that received one; the group holds exactly the edit batches of its URI in arrival
\* order and its done flag is that of the last fragment received for that URI.
C2_EditGroupPerUri ==
    \A uri \in Uris :
        IF editLog[uri] = <<>>
        THEN GroupsOf(uri) = {}
        ELSE /\ Cardinality(GroupsOf(uri)) = 1
             /\ \A i \in GroupsOf(uri) :
                    /\ responseParts[i].edits =
                           [k \in 1..Len(editLog[uri]) |-> editLog[uri][k].edits]
                    /\ responseParts[i].done = Last(editLog[uri]).done

C2_Witness ==
    \E u1 \in Uris, u2 \in Uris :
        /\ u1 # u2
        /\ Len(editLog[u1]) = 2
        /\ Len(editLog[u2]) = 1
        /\ editLog[u1][1].at < editLog[u2][1].at
        /\ editLog[u2][1].at < editLog[u1][2].at
        /\ editLog[u1][1].edits # editLog[u1][2].edits
        /\ Cardinality(GroupsOf(u1)) = 1
        /\ Cardinality(GroupsOf(u2)) = 1

-----------------------------------------------------------------------------
(* Claims about the agent event dispatcher *)

StreamIds == 1..Len(streams)

\* the streams of the session that are in the active-stream collection
OpenOf(sessionId) ==
    {k \in StreamIds : /\ streams[k].sessionId = sessionId
                       /\ getResponseStream(sessionId, streams[k].exchangeId) = k}

IsLoading(o) == o.op = "stage" /\ o.arg = "Loading..."

IsChatMarkdown(o) == o.op = "markdown" /\ o.cause = "ChatEvent"

ArgsOf(out) == [i \in 1..Len(out) |-> out[i].arg]

\* the last step dispatched an event
Dispatched == nEvents' = nEvents + 1

\* C3: with three streams open for one session, the dispatch of one terminal event for
\* one of them (ExchangeEvent.FinishedExchange, or ToolUseDetected with AttemptCompletion)
\* closes all three and removes all three from the collection.
C3_TerminalFanOut ==
    [][\A s \in Sessions :
          (/\ Dispatched
           /\ lastEvent'.sessionId = s
           /\ \/ lastEvent'.kind = "FinishedExchange"
              \/ lastEvent'.kind = "ToolUseDetected" /\ lastEvent'.arg = "AttemptCompletion"
           /\ Cardinality(OpenOf(s)) = 3
           /\ getResponseStream(s, lastEvent'.exchangeId) \in OpenOf(s))
          => \A k \in OpenOf(s) : /\ streams'[k].closed = streams[k].closed + 1
                                  /\ k \notin getAllResponseStreams']_vars

\* C6: every step leaves what a stream holds in place and adds outputs only at its end,
\* and only the outputs of the event dispatched for its pair in that step; the markdown
\* written for ChatEvent deltas is exactly the deltas that arrived for the stream while
\* it was open, in arrival order.
C6_ArrivalOrder ==
    /\ [][\A k \in StreamIds :
             /\ Len(streams'[k].out) >= Len(streams[k].out)
             /\ SubSeq(streams'[k].out, 1, Len(streams[k].out)) = streams[k].out
             /\ \A i \in (Len(streams[k].out) + 1)..Len(streams'[k].out) :
                    /\ Dispatched
                    /\ lastEvent'.sessionId = streams[k].sessionId
                    /\ lastEvent'.exchangeId = streams[k].exchangeId
                    /\ streams'[k].out[i].cause = lastEvent'.kind]_vars
    /\ [](\A k \in StreamIds :
             ArgsOf(SelectSeq(streams[k].out, IsChatMarkdown)) = streamHist[k].deltas)

C6_Witness ==
    \E k \in StreamIds :
        /\ streamHist[k].deltas = <<"Let me look", " at this.">>
        /\ ArgsOf(streams[k].out) = <<"Loading...", "Let me look", " at this.">>

\* C7: a stream holds the 'Loading...' stage exactly once if a non-sentinel event was
\* dispatched for its pair while it was open and not at all otherwise, and the stage is
\* the first output of the stream.
C7_LoadingOnce ==
    \A k \in StreamIds :
        /\ Len(SelectSeq(streams[k].out, IsLoading)) = (IF streamHist[k].arrived THEN 1 ELSE 0)
        /\ streams[k].out # <<>> => IsLoading(streams[k].out[1])
        /\ streamHist[k].arrived => streams[k].out # <<>>

C7_Witness ==
    \E k \in StreamIds :
        /\ nEvents = 2
        /\ Len(streams[k].out) >= 3
        /\ Len(SelectSeq(streams[k].out, IsLoading)) = 1
        /\ lastEvent.sessionId = streams[k].sessionId
        /\ lastEvent.exchangeId = streams[k].exchangeId

\* C8: the dispatch of a keep-alive, a session-started acknowledgement, a 'done' sentinel
\* or an event whose pair has no open stream writes to no stream, closes none, leaves the
\* collection, the seen-set and the thinking-text map as they are, and the loop goes on.
C8_InertEvents ==
    [][(/\ Dispatched
        /\ \/ lastEvent'.kind \in Sentinels
           \/ getResponseStream(lastEvent'.sessionId, lastEvent'.exchangeId) = 0)
       => /\ UNCHANGED <<streams, responseStreamCollection, startedStreams, lastThinkingText>>
          /\ UNCHANGED runs]_vars

C8_Witness ==
    /\ nEvents = 2
    /\ lastEvent.kind = "ChatEvent"
    /\ getResponseStream(lastEvent.sessionId, lastEvent.exchangeId) = 0
    /\ startedStreams # {}
    /\ \E k \in getAllResponseStreams : streams[k].out # <<>>
    /\ runs # {}

\* C9: once cancellation was requested on a registered stream and the dispatch of the
\* backend's answer is over, the backend was notified and the stream is closed and
\* removed from the collection.
C9_CancelCloses ==
    \A k \in StreamIds :
        (streams[k].cancelRequested /\ AnswerOf(k) \notin runs)
        => /\ [sessionId |-> streams[k].sessionId, exchangeId |-> streams[k].exchangeId]
                  \in cancelNotified
           /\ streams[k].closed >= 1
           /\ k \notin getAllResponseStreams

\* C10: the dispatch of a ToolTypeError for an open stream adds the toolTypeError part and
\* then the 'Error' stage at the end of that stream, closes and removes every open stream
\* of the session and leaves the streams of other sessions alone; a stream registered for
\* the session afterwards gets 'Loading...' first and its ChatEvent deltas in order.
C10_ToolTypeError ==
    /\ [][\A k \in StreamIds :
             (/\ Dispatched
              /\ lastEvent'.kind = "ToolTypeError"
              /\ getResponseStream(lastEvent'.sessionId, lastEvent'.exchangeId) = k)
             => /\ Len(streams'[k].out) >= Len(streams[k].out) + 2
                /\ SubSeq(streams'[k].out, Len(streams'[k].out) - 1, Len(streams'[k].out))
                       = <<Out("toolTypeError", lastEvent'.text, "ToolTypeError"),
                           Out("stage", "Error", "ToolTypeError")>>
                /\ \A j \in OpenOf(streams[k].sessionId) :
                       /\ streams'[j].closed = streams[j].closed + 1
                       /\ j \notin getAllResponseStreams'
                /\ \A j \in StreamIds :
                       streams[j].sessionId # streams[k].sessionId
                       => /\ streams'[j] = streams[j]
                          /\ (j \in getAllResponseStreams <=> j \in getAllResponseStreams')]_vars
    /\ [](\A k \in StreamIds :
             streamHist[k].afterError =>
                 /\ streamHist[k].arrived =>
                        /\ streams[k].out # <<>>
                        /\ IsLoading(streams[k].out[1])
                 /\ ArgsOf(SelectSeq(streams[k].out, IsChatMarkdown)) = streamHist[k].deltas
                 /\ streams[k].closed = 0 => k \in getAllResponseStreams)

C10_Witness ==
    \E j, k \in StreamIds :
        /\ streams[j].sessionId = streams[k].sessionId
        /\ HasToolTypeError(streams[j].out)
        /\ streams[j].closed = 1
        /\ streamHist[k].afterError
        /\ ArgsOf(streams[k].out) = <<"Loading...", "Let me look">>
        /\ k \in getAllResponseStreams

-----------------------------------------------------------------------------
(* Claims about the chat model *)

KindsOf(parts) == [i \in 1..Len(parts) |-> parts[i].kind]

\* a model with a request, a complete response holding merged markdown and a text-edit
\* group, and a canceled response
HasRoundTripContent(exs) ==
    /\ \E i \in 1..Len(exs) : exs[i].type = "request"
    /\ \E i \in 1..Len(exs) :
           /\ exs[i].type = "response"
           /\ exs[i].isComplete
           /\ ~exs[i].isCanceled
           /\ \E k \in 1..Len(exs[i].parts) :
                  /\ exs[i].parts[k].kind = "markdownContent"
                  /\ exs[i].parts[k].content.value = "Let me look at this."
           /\ \E k \in 1..Len(exs[i].parts) : exs[i].parts[k].kind = "textEditGroup"
    /\ \E i \in 1..Len(exs) : exs[i].type = "response" /\ exs[i].isCanceled

EquivalentExchanges(new, old) ==
    /\ Len(new) = Len(old)
    /\ \A i \in 1..Len(old) :
           /\ new[i].type = old[i].type
           /\ new[i].id = old[i].id
           /\ new[i].message = old[i].message
           /\ KindsOf(new[i].parts) = KindsOf(old[i].parts)
           /\ new[i].isCanceled = old[i].isCanceled

\* C4: the model constructed from toJSON() of a model with a request, a complete response
\* with merged markdown and a text-edit group, and a canceled response has as many
\* exchanges, in the same order, with the same ids, request text, response content kinds
\* and canceled flags.
C4_RoundTrip ==
    [][(~restored /\ restored' /\ HasRoundTripContent(exchanges))
       => EquivalentExchanges(exchanges', exchanges)]_vars

\* C5: 'Revert until here' on exchange X removes an exchange only after restoreSnapshot(X)
\* has resolved; when the action has finished, the exchange list is exactly the exchanges
\* that preceded X, in their original order, and every file of the working set has the
\* content it had when X began.
C5_RevertUntilHere ==
    /\ [][revert'.toRemove # revert.toRemove /\ revert.pc # "idle" /\ revert.pc # "done"
          => revert.pc = "remove"]_vars
    /\ [][revert.pc # "done" /\ revert'.pc = "done"
          => /\ IdsOf(exchanges') = revert.before
             /\ workingSet' = MapGet(snapshots, revert.exchangeId, workingSet)]_vars


-----------------------------------------------------------------------------
(* Claims about streamed edits *)

\* the edit streams whose Start returned success and whose End was handled
EndedStreams == {id \in EditRequestIds : editStream[id].startOk /\ editStream[id].phase = "ended"}

\* C11: the edits map holds an entry for an edit_request_id exactly from its successful
\* Start until its End was handled, and editCounter is the number of End events handled
\* (each End finalizes the processor, saves the file, removes the entry and counts once).
C11_EditLifecycle ==
    /\ \A id \in EditRequestIds :
           HasEntry(id) <=> (editStream[id].startOk /\ editStream[id].phase = "streaming")
    /\ editCounter = Cardinality(EndedStreams)
    /\ \A id \in EndedStreams :
           /\ streamProcessors[id].cleaned = 1
           /\ savedFiles[EditTargets[id].fs_file_path] >= 1

\* a call of provideEditStreamed was made in this step
EditCalled == editStream' # editStream

\* C12: a Start whose file can neither be opened nor created shows an error, returns
\* success = false and registers no processor; the later Delta and End events of that
\* edit stream complete without throwing and apply nothing; the entries and processors
\* of the other edit_request_ids are as they were.
C12_CreationFailureAborts ==
    [][\A id \in EditRequestIds :
          /\ (/\ editStream[id].phase = "new"
              /\ editStream'[id].aborted)
             => /\ Len(errorMessages') = Len(errorMessages) + 1
                /\ ~lastEdit'.success
                /\ ~HasEntry(id)'
                /\ UNCHANGED <<editsMap, streamProcessors>>
          /\ (/\ editStream[id].aborted
              /\ editStream'[id] # editStream[id])
             => /\ ~lastEdit'.threw
                /\ UNCHANGED <<editsMap, streamProcessors, savedFiles, editCounter, disk>>]_vars

-----------------------------------------------------------------------------
(* Claims about the initialization state machine *)

\* C13: initState changes only from Created to Initializing by startInitialize, from
\* Initializing to Initialized by initialize, or to Created by deinitialize;
\* startInitialize outside Created, and initialize or setInitializationError outside
\* Initializing, throw and leave the state and the initialization future as they are.
C13_InitStateMachine ==
    /\ [][initState' # initState
          => \/ /\ initState = "Created" /\ initState' = "Initializing"
                /\ lastInit' = [op |-> "startInitialize", threw |-> FALSE]
             \/ /\ initState = "Initializing" /\ initState' = "Initialized"
                /\ lastInit' = [op |-> "initialize", threw |-> FALSE]
             \/ /\ initState' = "Created"
                /\ lastInit' = [op |-> "deinitialize", threw |-> FALSE]]_vars
    /\ [][initOps' = initOps + 1
          => /\ (lastInit'.op = "startInitialize" /\ initState # "Created")
                => /\ lastInit'.threw
                   /\ UNCHANGED <<initState, isInitializedDeferred>>
             /\ (lastInit'.op \in {"initialize", "setInitializationError"}
                     /\ initState # "Initializing")
                => /\ lastInit'.threw
                   /\ UNCHANGED <<initState, isInitializedDeferred>>
             /\ lastInit'.threw => UNCHANGED <<initState, isInitializedDeferred>>]_vars

C13_Witness ==
    /\ initState = "Initialized"
    /\ lastInit = [op |-> "startInitialize", threw |-> TRUE]
    /\ isInitializedDeferred.n = 1
    /\ isInitializedDeferred.p = "resolved"

-----------------------------------------------------------------------------
(* Claims about the operations of the chat model *)

\* C14: addRequest leaves the earlier exchanges as they are and appends a new request
\* followed by a new empty, incomplete response; it fires exactly one addRequest event
\* that carries the request and sets 'last exchange complete' to false; afterwards
\* requestInProgress is true.
C14_AddRequest ==
    [][\A message \in Messages :
          addRequest(message)
          => LET n == Len(exchanges)
             IN /\ Len(exchanges') = n + 2
                /\ SubSeq(exchanges', 1, n) = exchanges
                /\ exchanges'[n + 1].type = "request"
                /\ exchanges'[n + 1].message = message
                /\ exchanges'[n + 2].type = "response"
                /\ exchanges'[n + 2].parts = <<>>
                /\ ~exchanges'[n + 2].isComplete
                /\ ~exchanges'[n + 2].isCanceled
                /\ \A i \in 1..n : exchanges[i].id \notin {exchanges'[n + 1].id, exchanges'[n + 2].id}
                /\ changeEvents' = <<ChangeEvent("addRequest", exchanges'[n + 1].id, "", {})>>
                /\ ~lastExchangeComplete'
                /\ requestInProgress(exchanges')]_vars

C14_Witness ==
    /\ Len(exchanges) = 3
    /\ exchanges[1].type = "response"
    /\ exchanges[1].isComplete
    /\ exchanges[2].type = "request"
    /\ changeEvents = <<ChangeEvent("addRequest", exchanges[2].id, "", {})>>
    /\ ~lastExchangeComplete
    /\ requestInProgress(exchanges)

\* C15: completeResponse sets the response's isComplete and 'last exchange complete' to
\* true; a response whose result carries the redacted flag has no content parts and empty
\* text projections (responseRepr, markdown) once it is complete.
C15_CompleteResponse ==
    [][\A i \in 1..MaxExchanges :
          completeResponse(i)
          => /\ exchanges'[i].isComplete
             /\ lastExchangeComplete'
             /\ exchanges[i].responseIsRedacted
                => /\ exchanges'[i].parts = <<>>
                   /\ ReprOf(exchanges'[i].parts, exchanges'[i].citations) = ""
                   /\ MarkdownOf(exchanges'[i].parts) = ""]_vars

\* C15 (amended): completeResponse sets the response's isComplete and 'last exchange
\* complete' to true; a response whose result carries the redacted flag has no content
\* parts and an empty markdown projection once it is complete, and its responseRepr
\* holds nothing but the notice of the code citations applied to it.
C15_CompleteResponseAmended ==
    [][\A i \in 1..MaxExchanges :
          completeResponse(i)
          => /\ exchanges'[i].isComplete
             /\ lastExchangeComplete'
             /\ exchanges'[i].citations = exchanges[i].citations
             /\ exchanges[i].responseIsRedacted
                => /\ exchanges'[i].parts = <<>>
                   /\ MarkdownOf(exchanges'[i].parts) = ""
                   /\ ReprOf(exchanges'[i].parts, exchanges'[i].citations) =
                          (IF exchanges[i].citations = <<>> THEN ""
                           ELSE "\n\n" \o getCodeCitationsMessage(exchanges[i].citations))]_vars

C15_Witness ==
    /\ Len(exchanges) = 1
    /\ chatOps = 2
    /\ exchanges[1].responseIsRedacted
    /\ exchanges[1].isComplete
    /\ exchanges[1].citations = <<"MIT">>
    /\ exchanges[1].parts = <<>>
    /\ lastExchangeComplete

\* C16: removeExchange(id, reason) removes the exchange with that id, disposes it if it is
\* a response, keeps the other exchanges in their order and fires exactly one
\* removeExchange event carrying the id and the reason; with no such exchange the list
\* and the disposed responses are unchanged and no event is fired.
C16_RemoveExchange ==
    [][\A id \in GivenIds, reason \in RemovalReasons :
          RemoveExchange(id, reason)
          => IF \E i \in 1..Len(exchanges) : exchanges[i].id = id
             THEN /\ exchanges' = SelectSeq(exchanges, LAMBDA x : x.id # id)
                  /\ Len(exchanges') = Len(exchanges) - 1
                  /\ changeEvents' = <<ChangeEvent("removeExchange", id, reason, {})>>
                  /\ disposed' = IF \E i \in 1..Len(exchanges) :
                                        exchanges[i].id = id /\ exchanges[i].type = "response"
                                 THEN disposed \cup {id}
                                 ELSE disposed
             ELSE /\ exchanges' = exchanges
                  /\ changeEvents' = <<>>
                  /\ disposed' = disposed]_vars

C16_Witness ==
    /\ IdsOf(exchanges) = <<RequestIdOf(0), ExchangeIdOf(1)>>
    /\ changeEvents = <<ChangeEvent("removeExchange", ExchangeIdOf(0), "Resend", {})>>
    /\ disposed = {ExchangeIdOf(0)}

\* C17: disableRequests(ids) leaves the exchange list with the same ids in the same order
\* and changes nothing of an exchange but its soft-hide flag; every exchange whose id is
\* in ids ends with shouldBeRemovedOnSend = true, and exactly one setHidden event
\* carrying ids is fired.
C17_DisableRequests ==
    [][\A requestIds \in SUBSET GivenIds :
          disableRequests(requestIds)
          => /\ IdsOf(exchanges') = IdsOf(exchanges)
             /\ \A i \in 1..Len(exchanges) :
                    /\ [exchanges'[i] EXCEPT !.isHidden = exchanges[i].isHidden] = exchanges[i]
                    /\ exchanges[i].id \in requestIds => exchanges'[i].isHidden
             /\ changeEvents' = <<ChangeEvent("setHidden", "", "", requestIds)>>]_vars

C17_Witness ==
    /\ Len(exchanges) = 3
    /\ changeEvents = <<ChangeEvent("setHidden", "", "", {RequestIdOf(0), ExchangeIdOf(1)})>>
    /\ exchanges[1].isHidden
    /\ ~exchanges[2].isHidden
    /\ exchanges[3].isHidden

\* the persisted exchanges of recognized shape, in order
Kept(raw) == SelectSeq(raw, LAMBDA x : x \in RecognizedExchanges)

\* what the claim compares: type, cancellation and hiding of each exchange
Shape(x) == <<x.type, x.isCanceled, x.isHidden>>

\* C18: when the constructor deserializes a persisted array, every exchange of unrecognized
\* shape is dropped with a logged error and every recognized request and response before
\* and after it is kept, in order
C18_UnrecognizedDropped ==
    [][\A initialData \in PersistedData :
          (/\ Construct(initialData)
           /\ initialData.exchangesIsArray
           /\ \E i \in 1..Len(initialData.exchanges) :
                  initialData.exchanges[i] \in UnrecognizedExchanges)
          => /\ constructLog'.errors >= 1
             /\ Len(exchanges') = Len(Kept(initialData.exchanges))
             /\ \A k \in 1..Len(exchanges') :
                    Shape(exchanges'[k]) = Shape(Kept(initialData.exchanges)[k])]_vars

\* C19: constructing a ChatModel from persisted data whose exchanges field is not an array
\* never throws, whatever the other fields are: one error is logged and the exchange list
\* is empty
C19_NonArrayNeverThrows ==
    [][\A initialData \in PersistedData :
          (Construct(initialData) /\ ~initialData.exchangesIsArray)
          => /\ ~constructLog'.threw
             /\ constructLog'.errors = 1
             /\ exchanges' = <<>>]_vars

\* the last part is one the claim says the fragment md merges into
MergesIntoLast(md) ==
    /\ Len(responseParts) > 0
    /\ Last(responseParts).kind = "markdownContent"
    /\ SameAttributes(Last(responseParts).content, md)

\* C20: updateContent with a markdownContent fragment merges it into the last part iff
\* that part exists, is markdownContent and has the fragment's isTrusted, supportHtml,
\* supportThemeIcons and baseUri; otherwise the parts grow by exactly one, the fragment
\* is the new last part and the earlier parts are unchanged
C20_MarkdownMergeIff ==
    [][\A md \in MergeInputs, quiet \in BOOLEAN :
          UpdateMarkdown(md, quiet) =>
             IF MergesIntoLast(md)
             THEN /\ Len(responseParts') = Len(responseParts)
                  /\ Last(responseParts').kind = "markdownContent"
                  /\ Last(responseParts').content.value =
                         Last(responseParts).content.value \o md.value
                  /\ SameAttributes(Last(responseParts').content, md)
                  /\ \A i \in 1..(Len(responseParts) - 1) : responseParts'[i] = responseParts[i]
             ELSE /\ Len(responseParts') = Len(responseParts) + 1
                  /\ Last(responseParts').kind = "markdownContent"
                  /\ Last(responseParts').content = md
                  /\ \A i \in 1..Len(responseParts) : responseParts'[i] = responseParts[i]]_vars

\* a fragment merged into the last markdown part, then a fragment pushed after it because
\* it differs in supportHtml only
C20_Witness ==
    /\ Len(responseParts) = 2
    /\ responseParts[1].kind = "markdownContent"
    /\ responseParts[1].content = MdString("Let me look at this.", "false", "false", "false", NoUri)
    /\ responseParts[2].kind = "markdownContent"
    /\ responseParts[2].content = MdString("Let me look", "false", "false", "true", NoUri)

\* C21: a textEdit fragment with an empty edit list leaves the content parts (so every
\* textEditGroup, its edits and its done flag), responseRepr and the markdown projection
\* unchanged and fires no change event
C21_EmptyEditNoOp ==
    [][\A uri \in Uris, done \in DoneFlags, quiet \in BOOLEAN :
          UpdateTextEdit(uri, <<>>, done, quiet)
          => /\ responseParts' = responseParts
             /\ responseRepr' = responseRepr
             /\ markdownContent' = markdownContent
             /\ ~fired']_vars

\* an empty edit list arrived second, after a non-empty batch had made the group of foo.ts
C21_Witness ==
    /\ respOps = 2
    /\ ~fired
    /\ citations = <<>>
    /\ Len(responseParts) = 1
    /\ responseParts[1].kind = "textEditGroup"
    /\ responseParts[1].edits = <<(<<"edit1">>)>>
    /\ Len(editLog["file:///foo.ts"]) = 1
    /\ editLog["file:///foo.ts"][1].at = 1

\* C22: when a progressTask's task resolves with a string, the string replaces the content
\* of that task's own part, in place, and no other part is modified, whatever updateContent,
\* addCitation and clear() calls came between the push and the resolution
C22_TaskResolvesInPlace ==
    [][\A k \in 1..Len(pendingTasks), content \in TaskResults \ {Undefined} :
          ResolveTask(k, content)
          => LET pos == pendingTasks[k].pos
             IN  /\ pos \in 1..Len(responseParts)
                 /\ responseParts[pos] = FragmentPart(pendingTasks[k].task)
                 /\ responseParts' =
                        [responseParts EXCEPT ![pos].content = NewMarkdownString(content)]]_vars

-----------------------------------------------------------------------------
(* Claims about the editing session and its list *)

\* C23: the combined list built for an editing session holds each file URI at most once,
\* also for a URI that is a modified-file entry and a working-set entry at once, and holds
\* no working-set-only file whose state is Suggested
C23_CombinedListDeduplicated ==
    [][renderChatEditingSessionState
       => /\ \A i, j \in 1..Len(chatEditList') :
                 chatEditList'[i].reference = chatEditList'[j].reference => i = j
          /\ \A i \in 1..Len(chatEditList') :
                 getEntry(chatEditList'[i].reference) = 0
                 => chatEditList'[i].state # WorkingSetEntryState.Suggested
          /\ \A uri \in SessionUris :
                 getEntry(uri) # 0 => \E i \in 1..Len(chatEditList') :
                                          chatEditList'[i].reference = uri]_vars

\* a.ts was added to the working set and then edited, b.ts is only suggested: the list
\* rendered from this shows a.ts once and b.ts not at all
C23_Witness ==
    /\ Len(entries) = 1
    /\ entries[1].modifiedURI = "file:///a.ts"
    /\ workingSetMetadata = <<[file |-> "file:///a.ts", state |-> WorkingSetEntryState.Transient],
                              [file |-> "file:///b.ts", state |-> WorkingSetEntryState.Suggested]>>
    /\ chatEditList = <<[reference |-> "file:///a.ts", state |-> WorkingSetEntryState.Modified]>>

-----------------------------------------------------------------------------
(* Claims about the view models *)

\* C25: no operation of the view-model layer (its setters and its listeners) changes the
\* chat model: the exchange list, the content parts, the votes, the applied-edit state
\* and the completion flags stay as they are
C25_ViewModelReadOnly ==
    [][viewOps' # viewOps => exchanges' = exchanges]_vars

\* an exchange without its vote and vote-down reason
WithoutVotes(exchange) == [exchange EXCEPT !.vote = Undefined, !.voteDownReason = Undefined]

\* C25 (amended): a view-model operation leaves the exchange list, the content parts and
\* the completion flags alone; setVote writes the vote of its own response and nothing
\* else, setVoteDownReason the vote-down reason of its own response and nothing else
C25_ViewModelWritesVotesOnly ==
    [][/\ viewOps' # viewOps
          => /\ Len(exchanges') = Len(exchanges)
             /\ \A i \in 1..Len(exchanges) :
                    WithoutVotes(exchanges'[i]) = WithoutVotes(exchanges[i])
       /\ \A id \in ViewIds, vote \in Votes :
             ViewSetVote(id, vote)
             => \A i \in 1..Len(exchanges) :
                    /\ exchanges'[i].voteDownReason = exchanges[i].voteDownReason
                    /\ exchanges'[i].vote = IF exchanges[i].id = id THEN vote
                                            ELSE exchanges[i].vote
       /\ \A id \in ViewIds, reason \in VoteDownReasons :
             ViewSetVoteDownReason(id, reason)
             => \A i \in 1..Len(exchanges) :
                    /\ exchanges'[i].vote = exchanges[i].vote
                    /\ exchanges'[i].voteDownReason = IF exchanges[i].id = id THEN reason
                                                      ELSE exchanges[i].voteDownReason
       /\ \A id \in ViewIds :
             ViewSetEditApplied(id, 1, 1) => exchanges' = exchanges]_vars

\* a response shown by the view model was voted down with a reason through its view model
C25_Witness ==
    /\ viewOps = 3
    /\ Len(items) = 1
    /\ items[1].type = "response"
    /\ items[1].modelChangeCount = 4
    /\ \E i \in 1..Len(exchanges) :
           /\ exchanges[i].id = items[1].id
           /\ exchanges[i].vote = "down"
           /\ exchanges[i].voteDownReason = "incorrectCode"

-----------------------------------------------------------------------------
(* Claims about the token refresh *)

\* what holds of a refreshTokens call in every state, whatever its responses are
RefreshBounded ==
    /\ refresh.requests <= MAX_REFRESH_RETRIES
    /\ (session = 0 => refresh.requests = 0)
    /\ (refresh.outcome = "rejected" =>
            /\ refresh.attempts = MAX_REFRESH_RETRIES
            /\ refresh.requests = MAX_REFRESH_RETRIES
            /\ notifications # <<>>
            /\ notifications[Len(notifications)] = FailedMessage
            /\ refresh.error = refresh.lastError
            /\ refresh.error # ""
            /\ ~refresh.stored
            /\ refresh.scheduled = 0)

\* C26 as stated: a refreshTokens call sends at most MAX_REFRESH_RETRIES = 3 refresh requests,
\* sends none without a stored session, rejects with the last error after a notification
\* when three attempts failed, and returns after the first successful (ok) response, having
\* stored the new session and scheduled the next refresh.
C26_ReturnsAfterFirstOk ==
    /\ RefreshBounded
    /\ (refresh.okSeen =>
            \/ refresh.pc = "getSessionData"
            \/ refresh.pc = "idle" /\ refresh.outcome = "returned" /\ refresh.stored
                                   /\ refresh.scheduled = 1)

\* C26, amended: every refreshTokens call ends; it sends at most MAX_REFRESH_RETRIES = 3
\* refresh requests and none without a stored session; it returns after the first attempt
\* whose response is ok and whose session data could be fetched and stored (the next refresh
\* is then scheduled once), an ok response whose session data cannot be stored counting as a
\* failed attempt; after three failed attempts it raises the failure notification and
\* rejects with the last error.
C26_RefreshEndsWithinThreeRequests ==
    /\ [](/\ RefreshBounded
          /\ (refresh.stored <=> refresh.scheduled = 1)
          /\ (refresh.stored => refresh.okSeen /\ refresh.pc = "idle"
                                /\ refresh.outcome = "returned")
          /\ (refresh.outcome = "returned" => refresh.stored \/ refresh.requests = 0))
    /\ (refresh.pc # "idle" ~> refresh.pc = "idle")

\* a call that got an ok response, could not store the session, and was rejected after
\* three requests
C26_Witness ==
    /\ refresh.outcome = "rejected"
    /\ refresh.okSeen
    /\ refresh.requests = MAX_REFRESH_RETRIES

-----------------------------------------------------------------------------
(* Claims about the handlers of one edit stream in flight *)

\* the lines handed to processLine so far are the first lines of the text sent, in order
HandedInOrder ==
    /\ Len(processLineCalls) <= Len(AllLines(sentText))
    /\ \A i \in 1..Len(processLineCalls) : processLineCalls[i] = AllLines(sentText)[i]

\* C27: the lines handed to processLine are the lines of the concatenated Delta texts, each
\* once and in text order, the trailing partial line included once End was handled, and no
\* line is handed over after the processor's cleanup, also with several Delta handlers and
\* the End handler suspended at processLine at once.
C27_LinesOnceInOrder ==
    /\ [](/\ HandedInOrder
          /\ (flightPhase = "ended" => processLineCalls = AllLines(sentText)))
    /\ [][cleanups > 0 => processLineCalls' = processLineCalls]_vars

-----------------------------------------------------------------------------
(* Claims about the thinking-text map *)

\* the key of the stream k
StreamKey(k) == getKey(streams[k].sessionId, streams[k].exchangeId)

\* C28: every key of lastThinkingText is the key of a stream in the active-stream
\* collection, and a step that closes a stream leaves no lastThinkingText entry for it.
C28_ThinkingTextOfActiveStreams ==
    /\ [](\A c \in lastThinkingText : \E a \in responseStreamCollection : a.key = c.key)
    /\ [][\A k \in 1..Len(streams) :
              streams'[k].closed > streams[k].closed
              => /\ \A c \in lastThinkingText' : c.key # StreamKey(k)
                 /\ \A a \in responseStreamCollection' : a.key # StreamKey(k)]_vars

\* a stream that received thinking text and was closed
C28_Witness ==
    \E k \in 1..Len(streams) :
        /\ streams[k].closed > 0
        /\ \E i \in 1..Len(streams[k].out) : streams[k].out[i].cause = "ToolThinking"
        /\ \A c \in lastThinkingText : c.key # StreamKey(k)

-----------------------------------------------------------------------------
(* Claims about the initialization future *)

\* C29: a setInitializationError(e) that does not throw leaves the initialization future
\* rejected with e; initState = Initialized implies that the current future is resolved;
\* and a future that is settled stays as it is.
C29_FailureRejectsFuture ==
    /\ [](initState = "Initialized" => isInitializedDeferred.p = "resolved")
    /\ [][\A err \in InitErrors :
              setInitializationError(err) /\ ~lastInit'.threw
              => /\ isInitializedDeferred'.p = "rejected"
                 /\ isInitializedDeferred'.error = err]_vars
    /\ [][(isInitializedDeferred.p # "pending"
              /\ isInitializedDeferred'.n = isInitializedDeferred.n)
          => /\ isInitializedDeferred'.p = isInitializedDeferred.p
             /\ isInitializedDeferred'.error = isInitializedDeferred.error]_vars

-----------------------------------------------------------------------------
(* Claims about closed response streams *)

\* C30: a stream the dispatcher has closed receives no further output from any event of
\* any loop, and it is not closed again.
C30_ClosedStreamsStayClosed ==
    /\ [](\A k \in 1..Len(streams) : streams[k].closed <= 1)
    /\ [][\A k \in 1..Len(streams) :
              streams[k].closed > 0
              => /\ streams'[k].out = streams[k].out
                 /\ streams'[k].closed = streams[k].closed]_vars

\* an event that writes was dispatched for a stream closed before, with two loops running
C30_Witness ==
    \E k \in 1..Len(streams) :
        /\ streams[k].closed = 1
        /\ lastEvent.kind = "ChatEvent"
        /\ lastEvent.sessionId = streams[k].sessionId
        /\ lastEvent.exchangeId = streams[k].exchangeId
        /\ Cardinality(runs) >= 2

-----------------------------------------------------------------------------
(* Claims about the active-stream collection as a map over pairs *)

\* C31: the collection holds for every (sessionId, exchangeId) pair the stream added last
\* for that pair and not removed since, whatever was added, looked up or removed for
\* other pairs; a lookup returns that stream.
C31_PairsKeptApart ==
    /\ [](\A s \in SessionIdStrings, e \in ExchangeIdStrings :
              MapGet(collectionMap, getKey(s, e), 0) = pairStreams[s][e])
    /\ [][\A s \in SessionIdStrings, e \in ExchangeIdStrings :
              lookupResponseStream(s, e) => lastGet'.stream = pairStreams[s][e]]_vars

-----------------------------------------------------------------------------
(* Claims about the terminal fan-out across sessions *)

\* the thinking-text entries of the stream k
ThinkingOf(k) == {c \in lastThinkingText : c.key = StreamKey(k)}

-----------------------------------------------------------------------------
(* Claims about the thinking-text deltas *)

IsThinkingMarkdown(o) == o.op = "markdown" /\ o.cause = "ToolThinking"

\* a write without the line break appended to it
WithoutNewline(arg) == SubSeq(arg, 1, Len(arg) - 1)

EndsWithNewline(arg) == Len(arg) > 0 /\ SubSeq(arg, Len(arg), Len(arg)) = "\n"

\* C33: the dispatch of a ToolThinking event for a stream stores the event's text as the
\* last thinking text of the pair; when the text extends the text stored before, the
\* markdown written for the event is nothing if the text is the same, and otherwise one
\* write that, without its final line break, completes the stored text to the new text.
C33_ThinkingDeltas ==
    [][\A k \in StreamIds :
          (/\ Dispatched
           /\ lastEvent'.kind = "ToolThinking"
           /\ getResponseStream(lastEvent'.sessionId, lastEvent'.exchangeId) = k)
          => LET text == lastEvent'.text
                 last == MapGet(lastThinkingText, StreamKey(k), "")
                 new == SelectSeq(SubSeq(streams'[k].out, Len(streams[k].out) + 1,
                                         Len(streams'[k].out)), IsThinkingMarkdown)
             IN /\ MapGet(lastThinkingText', StreamKey(k), Null) = text
                /\ (Len(last) <= Len(text) /\ SubSeq(text, 1, Len(last)) = last)
                   => \/ text = last /\ new = <<>>
                      \/ /\ text # last
                         /\ Len(new) = 1
                         /\ EndsWithNewline(new[1].arg)
                         /\ last \o WithoutNewline(new[1].arg) = text]_vars

\* two thinking texts, the second extending the first, written as two deltas
C33_Witness ==
    \E k \in StreamIds :
        /\ ArgsOf(SelectSeq(streams[k].out, IsThinkingMarkdown)) = <<"Thinking\n", " more\n">>
        /\ MapGet(lastThinkingText, StreamKey(k), "") = "Thinking more"

-----------------------------------------------------------------------------
(* Claims about the view model and its model *)

\* C34: once the view model's listener has run for the model's last operation, the items
\* of the view model have the ids of model.getExchanges(), in the same order; these are
\* the items of a view model constructed from the model at that moment.
C34_ViewModelInStep ==
    ListenerDone => [i \in 1..Len(items) |-> items[i].id] = [i \in 1..Len(exchanges) |-> exchanges[i].id]

-----------------------------------------------------------------------------
(* Claims about the 'last exchange complete' context key *)

\* C35: whenever the context key 'last exchange complete' is true, the last exchange of
\* the session is a response that is complete, so that requestInProgress is false.
C35_LastExchangeCompleteKey ==
    lastExchangeComplete
    => /\ exchanges # <<>>
       /\ exchanges[Len(exchanges)].type = "response"
       /\ exchanges[Len(exchanges)].isComplete
       /\ ~requestInProgress(exchanges)


\* C36: a response that is complete is frozen: no step changes the content parts (and so
\* the derived text) of a response that was complete before the step, a complete response
\* stays complete, a canceled one stays canceled, and a canceled response is complete
C36_CompleteResponseFrozen ==
    /\ [](\A i \in 1..Len(exchanges) :
              (exchanges[i].type = "response" /\ exchanges[i].isCanceled)
                  => exchanges[i].isComplete)
    /\ [][\A i \in 1..Len(exchanges) :
              (exchanges[i].type = "response" /\ exchanges[i].isComplete)
                  => /\ i <= Len(exchanges')
                     /\ exchanges'[i].parts = exchanges[i].parts
                     /\ exchanges'[i].isComplete
                     /\ (exchanges[i].isCanceled => exchanges'[i].isCanceled)]_vars


\* C37: disableRequests(ids) overwrites the soft-hide flag of every exchange: after the
\* call an exchange is hidden if and only if its id is in ids, whatever its flag was
\* before, so an exchange hidden by an earlier call and not listed in ids is visible again
C37_DisableRequestsOverwrites ==
    [][\A requestIds \in SUBSET GivenIds :
          disableRequests(requestIds)
          => /\ Len(exchanges') = Len(exchanges)
             /\ \A i \in 1..Len(exchanges) :
                    exchanges'[i].isHidden <=> (exchanges[i].id \in requestIds)]_vars

\* disableRequests has just run with ids that list the second exchange only: the second
\* exchange is hidden and the others are visible
C37_Witness ==
    /\ Len(exchanges) = 3
    /\ changeEvents = <<ChangeEvent("setHidden", "", "", {exchanges[2].id})>>
    /\ ~exchanges[1].isHidden
    /\ exchanges[2].isHidden
    /\ ~exchanges[3].isHidden


\* C38: when the refresh request comes back with 401, the call notifies once that the
\* session has expired, deletes the stored session and is rejected at once with 'Refresh
\* token invalid or expired': the call is over after that step, so it sends no further
\* request and takes no retry delay, and no call notifies the expiry twice
C38_ExpiredFailsAtOnce ==
    /\ [](Cardinality({k \in 1..Len(notifications) : notifications[k] = ExpiredMessage}) <= 1)
    /\ [][FetchSettles("401")
           => /\ notifications' = Append(notifications, ExpiredMessage)
              /\ ~secretStored'
              /\ refresh'.pc = "idle"
              /\ refresh'.outcome = "rejected"
              /\ refresh'.error = ErrorOf("401")
              /\ refresh'.requests = refresh.requests]_vars


\* C39: once deleteSession has completed no session is stored and getSession returns
\* undefined, and a session comes to be stored where none was only by createSession, also
\* when a refreshTokens call is in flight or is started later by the refresh timer
C39_DeletedUntilCreated ==
    /\ [][deleteSession => (~secretStored' /\ getSession' = 0)]_vars
    /\ [][(~secretStored /\ secretStored') => createSession]_vars

=========================================================================
